---------------------------- MODULE Spec2Model ----------------------------
(***************************************************************************)
(* FL Studio MCP: the JSON command protocol between FLStudioClient         *)
(* (MCP_Server/fl_client.py) and the three socket servers: the Remote      *)
(* Script FLStudioMCP (FlStudioMCP_Remote_Script/__init__.py), the         *)
(* standalone FLStudioServer (MCP_Server/fl_server.py) and the simplified  *)
(* script FLStudioMCPSimple (FlStudioMCP_Simple/__init__.py).              *)
(***************************************************************************)
EXTENDS Integers, Sequences, FiniteSets, TLC

(***************************************************************************)
(* JSON / Python values.  Every value is a record of the same four fields  *)
(* so that values of different Python types can be compared: t is the      *)
(* Python type, i the number (or the length of a list), s the text, d the  *)
(* mapping of a dict.                                                      *)
(***************************************************************************)
NoKeys == [k \in {} |-> 0]

VInt(n) == [t |-> "int", i |-> n, s |-> "", d |-> NoKeys]

VStr(x) == [t |-> "str", i |-> 0, s |-> x, d |-> NoKeys]

VFloat(x) == [t |-> "float", i |-> 0, s |-> x, d |-> NoKeys]

VBool(b) == [t |-> "bool", i |-> IF b THEN 1 ELSE 0, s |-> "", d |-> NoKeys]

VNull == [t |-> "NoneType", i |-> 0, s |-> "", d |-> NoKeys]

VList(n) == [t |-> "list", i |-> n, s |-> "", d |-> NoKeys]

VDict(f) == [t |-> "dict", i |-> 0, s |-> "", d |-> f]

IsDict(v) == v.t = "dict"

IsNumber(v) == v.t \in {"int", "bool"}

\* str(n) for the small integers the model uses.
ToStr(n) ==
    CASE n = -1 -> "-1" [] n = 0 -> "0" [] n = 1 -> "1" [] n = 2 -> "2"
      [] n = 3 -> "3" [] n = 4 -> "4" [] n = 5 -> "5" [] n = 8 -> "8"
      [] n = 16 -> "16" [] n = 120 -> "120" [] n = 140 -> "140"
      [] OTHER -> "n"

\* str(v) / f"{v}" of a value.
Fmt(v) ==
    CASE v.t \in {"int"} -> ToStr(v.i)
      [] v.t = "bool" -> IF v.i = 1 THEN "True" ELSE "False"
      [] v.t \in {"str", "float"} -> v.s
      [] v.t = "NoneType" -> "None"
      [] v.t = "list" -> "[...]"
      [] OTHER -> "{...}"

\* dict.get(key, default): AttributeError on a value that is no dict is the
\* caller's concern (see HasGet).
Get(v, key, default) == IF key \in DOMAIN v.d THEN v.d[key] ELSE default

HasGet(v) == IsDict(v)

NoGetMsg(v) == "'" \o v.t \o "' object has no attribute 'get'"


(***************************************************************************)
(* The host (FL Studio's scripting API) as the handlers see it: the fields *)
(* the API calls of the handlers read and write.                           *)
(***************************************************************************)
Host0 ==
    [tempo |-> VInt(140), playing |-> FALSE, chanName |-> VStr("Channel 1"),
     patName |-> VStr("Pattern 1"), patLen |-> VInt(4), curPattern |-> VInt(0),
     selChannel |-> VInt(0), notes |-> 0, plugin |-> VStr(""),
     channelCount |-> 16, freeChannel |-> 2]

\* What a handler call ends with: a return value or a raised exception, and
\* the host state it leaves.
Ok(result, host) == [ok |-> TRUE, result |-> VDict(result), msg |-> "", host |-> host]

Raise(msg, host) == [ok |-> FALSE, result |-> VDict(NoKeys), msg |-> msg, host |-> host]

HostError == "host API error"

MidiNameError == "name 'midi' is not defined"

CmpError(v) == "'>=' not supported between instances of '" \o v.t \o "' and 'int'"

AddError(v) == "unsupported operand type(s) for +: '" \o v.t \o "' and 'int'"

LenError(v) == "object of type '" \o v.t \o "' has no len()"

IterError(v) == "'" \o v.t \o "' object is not iterable"

HasLen(v) == v.t \in {"list", "str", "dict"}

MutatingCommands ==
    {"create_midi_track", "set_track_name", "create_pattern",
     "add_notes_to_pattern", "set_pattern_name", "set_tempo", "play_pattern",
     "stop_pattern", "start_playback", "stop_playback", "load_plugin"}

ReadCommands == {"get_session_info", "get_track_info", "get_plugin_list"}

SupportedCommands == MutatingCommands \cup ReadCommands

KnownPlugins == {"FLEX"}

(***************************************************************************)
(* Remote Script: the command implementations.  api is                     *)
(* FL_STUDIO_API_AVAILABLE; hostOk says whether the host accepts the API   *)
(* calls the handler makes (a call the host rejects raises at the first    *)
(* call, before any host state changes).                                   *)
(***************************************************************************)
RS_get_session_info(api, host, hostOk) ==
    IF ~api
    THEN Ok([tempo |-> VInt(140), signature_numerator |-> VInt(4),
             signature_denominator |-> VInt(4), track_count |-> VInt(16),
             master_track |-> VStr("Master,0.8,0.5")], host)
    ELSE IF ~hostOk THEN Raise(HostError, host)
    ELSE Ok([tempo |-> host.tempo, signature_numerator |-> VInt(4),
             signature_denominator |-> VInt(4),
             track_count |-> VInt(host.channelCount),
             master_track |-> VStr("Master,0.8,0.5")], host)

RS_get_track_info(track_index, api, host, hostOk) ==
    IF ~api
    THEN IF ~IsNumber(track_index) THEN Raise(AddError(track_index), host)
         ELSE Ok([index |-> track_index,
                  name |-> VStr("Channel " \o ToStr(track_index.i + 1)),
                  is_audio_track |-> VBool(FALSE), is_midi_track |-> VBool(TRUE),
                  mute |-> VBool(FALSE), solo |-> VBool(FALSE),
                  volume |-> VFloat("0.8"), panning |-> VFloat("0.5"),
                  patterns |-> VList(0)], host)
    ELSE IF ~hostOk THEN Raise(HostError, host)
    ELSE Ok([index |-> track_index, name |-> host.chanName,
             is_audio_track |-> VBool(FALSE), is_midi_track |-> VBool(TRUE),
             mute |-> VBool(FALSE), solo |-> VBool(FALSE),
             volume |-> VFloat("0.8"), panning |-> VFloat("0.5"),
             patterns |-> VList(1)], host)

RS_create_midi_track(index, api, host, hostOk) ==
    IF ~api
    THEN IF ~IsNumber(index) THEN Raise(CmpError(index), host)
         ELSE Ok([index |-> IF index.i >= 0 THEN index ELSE VInt(0),
                  name |-> VStr("Channel " \o
                               ToStr(IF index.i >= 0 THEN index.i + 1 ELSE 1))],
                 host)
    ELSE IF ~hostOk THEN Raise(HostError, host)
    \* channels.selectAll(); channels.deselectAll(); then midi.widChannelRack:
    \* the module midi is never imported.
    ELSE Raise(MidiNameError, host)

RS_set_track_name(track_index, name, api, host, hostOk) ==
    IF ~api THEN Ok([name |-> name], host)
    ELSE IF ~hostOk THEN Raise(HostError, host)
    ELSE Ok([name |-> name], [host EXCEPT !.chanName = name])

RS_create_pattern(track_index, pattern_index, length, api, host, hostOk) ==
    IF ~api
    THEN IF ~IsNumber(pattern_index) THEN Raise(AddError(pattern_index), host)
         ELSE Ok([name |-> VStr("Pattern " \o ToStr(pattern_index.i + 1)),
                  length |-> length], host)
    ELSE IF pattern_index = VInt(-1) THEN Raise(MidiNameError, host)
    ELSE IF ~hostOk THEN Raise(HostError, host)
    ELSE Ok([name |-> host.patName, length |-> length],
            [host EXCEPT !.patLen = length])

RS_add_notes_to_pattern(track_index, pattern_index, notes, api, host, hostOk) ==
    IF ~api
    THEN IF ~HasLen(notes) THEN Raise(LenError(notes), host)
         ELSE Ok([note_count |-> VInt(notes.i)], host)
    ELSE IF ~hostOk THEN Raise(HostError, host)
    ELSE LET h1 == [host EXCEPT !.curPattern = pattern_index,
                                !.selChannel = track_index]
         IN  IF ~HasLen(notes) THEN Raise(IterError(notes), h1)
             ELSE Ok([note_count |-> VInt(notes.i)],
                     [h1 EXCEPT !.notes = @ + notes.i])

RS_set_pattern_name(track_index, pattern_index, name, api, host, hostOk) ==
    IF ~api THEN Ok([name |-> name], host)
    ELSE IF ~hostOk THEN Raise(HostError, host)
    ELSE Ok([name |-> name], [host EXCEPT !.patName = name])

RS_set_tempo(tempo, api, host, hostOk) ==
    IF ~api THEN Ok([tempo |-> tempo], host)
    ELSE IF ~hostOk THEN Raise(HostError, host)
    ELSE Ok([tempo |-> tempo], [host EXCEPT !.tempo = tempo])

RS_play_pattern(pattern_index, api, host, hostOk) ==
    IF ~api THEN Ok([playing |-> VBool(TRUE), pattern_index |-> pattern_index], host)
    ELSE IF ~hostOk THEN Raise(HostError, host)
    ELSE Ok([playing |-> VBool(TRUE), pattern_index |-> pattern_index],
            [host EXCEPT !.curPattern = pattern_index, !.playing = TRUE])

RS_stop_pattern(pattern_index, api, host, hostOk) ==
    IF ~api THEN Ok([stopped |-> VBool(TRUE), pattern_index |-> pattern_index], host)
    ELSE IF ~hostOk THEN Raise(HostError, host)
    ELSE Ok([stopped |-> VBool(TRUE), pattern_index |-> pattern_index],
            [host EXCEPT !.playing = FALSE])

RS_start_playback(api, host, hostOk) ==
    IF ~api THEN Ok([playing |-> VBool(TRUE)], host)
    ELSE IF ~hostOk THEN Raise(HostError, host)
    ELSE Ok([playing |-> VBool(TRUE)], [host EXCEPT !.playing = TRUE])

RS_stop_playback(api, host, hostOk) ==
    IF ~api THEN Ok([playing |-> VBool(FALSE)], host)
    ELSE IF ~hostOk THEN Raise(HostError, host)
    ELSE Ok([playing |-> VBool(FALSE)], [host EXCEPT !.playing = FALSE])

RS_get_plugin_list(api, host, hostOk) ==
    IF ~api THEN Ok([plugins |-> VList(10)], host)
    ELSE IF ~hostOk THEN Raise(HostError, host)
    ELSE Ok([plugins |-> VList(Cardinality(KnownPlugins))], host)

RS_load_plugin(track_index, plugin_name, api, host, hostOk) ==
    IF ~api
    THEN Ok([loaded |-> VBool(FALSE), plugin_name |-> plugin_name,
             track_index |-> track_index,
             message |-> VStr("FL Studio API not available. Please load the plugin manually.")],
            host)
    ELSE IF ~hostOk THEN Raise(HostError, host)
    ELSE LET h1 == [host EXCEPT !.selChannel = track_index]
         IN  IF plugin_name.t = "str" /\ plugin_name.s \in KnownPlugins
             THEN Ok([loaded |-> VBool(TRUE), plugin_name |-> plugin_name,
                      track_index |-> track_index],
                     [h1 EXCEPT !.plugin = plugin_name])
             ELSE Ok([loaded |-> VBool(FALSE), plugin_name |-> plugin_name,
                      track_index |-> track_index,
                      message |-> VStr("Plugin '" \o Fmt(plugin_name) \o "' not found.")],
                     h1)


(***************************************************************************)
(* Remote Script: _process_command.  A response is a record whose fields   *)
(* are the keys of the response dict.                                      *)
(***************************************************************************)
TimeoutMsg == "Timeout waiting for operation to complete"

ConcatError(v) == "can only concatenate str (not \"" \o v.t \o "\") to str"

RS_type(command) == Get(command, "type", VStr(""))

RS_params(command) == Get(command, "params", VDict(NoKeys))

RS_is_mutating(command) ==
    RS_type(command).t = "str" /\ RS_type(command).s \in MutatingCommands

\* The body of task(): the handler call with the defaults of params.get; an
\* exception (params.get on a value that is no dict included) is caught in
\* the task.
RS_task(command, api, host, hostOk) ==
    LET ty == RS_type(command).s
        p == RS_params(command)
        g(key, default) == Get(p, key, default)
    IN  IF ty \in {"start_playback", "stop_playback"}
        THEN IF ty = "start_playback" THEN RS_start_playback(api, host, hostOk)
             ELSE RS_stop_playback(api, host, hostOk)
        ELSE IF ~HasGet(p) THEN Raise(NoGetMsg(p), host)
        ELSE CASE ty = "create_midi_track" ->
                    RS_create_midi_track(g("index", VInt(-1)), api, host, hostOk)
               [] ty = "set_track_name" ->
                    RS_set_track_name(g("track_index", VInt(0)), g("name", VStr("")),
                                      api, host, hostOk)
               [] ty = "create_pattern" ->
                    RS_create_pattern(g("track_index", VInt(0)),
                                      g("pattern_index", VInt(0)),
                                      g("length", VFloat("4.0")), api, host, hostOk)
               [] ty = "add_notes_to_pattern" ->
                    RS_add_notes_to_pattern(g("track_index", VInt(0)),
                                            g("pattern_index", VInt(0)),
                                            g("notes", VList(0)), api, host, hostOk)
               [] ty = "set_pattern_name" ->
                    RS_set_pattern_name(g("track_index", VInt(0)),
                                        g("pattern_index", VInt(0)),
                                        g("name", VStr("")), api, host, hostOk)
               [] ty = "set_tempo" ->
                    RS_set_tempo(g("tempo", VFloat("120.0")), api, host, hostOk)
               [] ty = "play_pattern" ->
                    RS_play_pattern(g("pattern_index", VInt(0)), api, host, hostOk)
               [] ty = "stop_pattern" ->
                    RS_stop_pattern(g("pattern_index", VInt(0)), api, host, hostOk)
               [] OTHER ->
                    RS_load_plugin(g("track_index", VInt(0)),
                                   g("plugin_name", VStr("")), api, host, hostOk)

\* What task() puts on response_queue.
RS_queue_item(outcome) ==
    IF outcome.ok THEN [status |-> "success", result |-> outcome.result]
    ELSE [status |-> "error", message |-> outcome.msg]

ErrorKeepingResult(msg) ==
    [status |-> "error", result |-> VDict(NoKeys), message |-> msg]

\* The dispatcher's end of the wait: response_queue.get(timeout=10.0) returned
\* the head of the queue, or raised queue.Empty on an empty queue.
RS_wait_response(queue) ==
    IF queue = << >> THEN ErrorKeepingResult(TimeoutMsg)
    ELSE IF Head(queue).status = "error"
         THEN ErrorKeepingResult(Head(queue).message)
         ELSE [status |-> "success", result |-> Head(queue).result]

RS_from_outcome(outcome) ==
    IF outcome.ok THEN [status |-> "success", result |-> outcome.result]
    ELSE ErrorKeepingResult(outcome.msg)

\* The branches of _process_command that run in the connection's own thread.
RS_direct(command, api, host, hostOk) ==
    LET ty == RS_type(command)
        p == RS_params(command)
    IN  IF ty = VStr("get_session_info")
        THEN RS_from_outcome(RS_get_session_info(api, host, hostOk))
        ELSE IF ty = VStr("get_track_info")
        THEN IF ~HasGet(p) THEN ErrorKeepingResult(NoGetMsg(p))
             ELSE RS_from_outcome(
                      RS_get_track_info(Get(p, "track_index", VInt(0)),
                                        api, host, hostOk))
        ELSE IF ty = VStr("get_plugin_list")
        THEN RS_from_outcome(RS_get_plugin_list(api, host, hostOk))
        ELSE IF ty.t = "str"
        THEN ErrorKeepingResult("Unknown command: " \o ty.s)
        ELSE ErrorKeepingResult(ConcatError(ty))

\* _process_command with the task finishing inside the wait (inTime) or not.
RS_process_command(command, api, host, hostOk, inTime) ==
    IF RS_is_mutating(command)
    THEN LET outcome == RS_task(command, api, host, hostOk)
         IN  [resp |-> RS_wait_response(IF inTime THEN <<RS_queue_item(outcome)>>
                                        ELSE << >>),
              host |-> outcome.host]
    ELSE [resp |-> RS_direct(command, api, host, hostOk), host |-> host]


(***************************************************************************)
(* Standalone FLStudioServer: _process_command and its handlers, which     *)
(* return whole responses and touch no host.                               *)
(***************************************************************************)
Success == [status |-> "success"]

SuccessWith(result) == [status |-> "success", result |-> VDict(result)]

Error(msg) == [status |-> "error", message |-> msg]

\* Python truthiness: `not v`.
Falsy(v) ==
    \/ v.t = "NoneType"
    \/ v.t \in {"int", "bool", "list"} /\ v.i = 0
    \/ v.t = "str" /\ v.s = ""
    \/ v.t = "dict" /\ DOMAIN v.d = {}

\* int(s) of a string: the number, or ValueError.
StrIsInt(x) == x \in {"-1", "0", "1", "2", "3"}

IntOfStr(x) ==
    CASE x = "-1" -> -1 [] x = "0" -> 0 [] x = "1" -> 1 [] x = "2" -> 2
      [] OTHER -> 3

FS_create_midi_track(index) ==
    IF index.t = "str" /\ ~StrIsInt(index.s)
    THEN Error("Invalid track index: invalid literal for int() with base 10: '"
               \o index.s \o "'")
    ELSE LET n == IF index.t = "str" THEN VInt(IntOfStr(index.s)) ELSE index
         IN  IF ~IsNumber(n) THEN Error("Invalid track index: " \o CmpError(n))
             ELSE SuccessWith([index |-> IF n.i >= 0 THEN n ELSE VInt(8)])

FS_set_track_name(track_index, name) ==
    IF track_index = VNull \/ name = VNull
    THEN Error("Missing track_index or name parameter")
    ELSE Success

FS_create_pattern(name, length) ==
    IF name = VNull THEN Error("Missing name parameter")
    ELSE SuccessWith([index |-> VInt(0)])

FS_add_notes_to_pattern(pattern_index, track_index, notes) ==
    IF pattern_index = VNull \/ track_index = VNull \/ Falsy(notes)
    THEN Error("Missing pattern_index, track_index, or notes parameter")
    ELSE Success

FS_set_pattern_name(pattern_index, name) ==
    IF pattern_index = VNull \/ name = VNull
    THEN Error("Missing pattern_index or name parameter")
    ELSE Success

FS_set_tempo(tempo) ==
    IF tempo = VNull THEN Error("Missing tempo parameter") ELSE Success

FS_play_pattern(pattern_index) ==
    IF pattern_index = VNull THEN Error("Missing pattern_index parameter")
    ELSE Success

FS_stop_pattern(pattern_index) ==
    IF pattern_index = VNull THEN Error("Missing pattern_index parameter")
    ELSE Success

FS_load_plugin(track_index, plugin_name) ==
    IF track_index = VNull \/ plugin_name = VNull
    THEN Error("Missing track_index or plugin_name parameter")
    ELSE Success

FS_get_session_info ==
    SuccessWith([tempo |-> VInt(120), signature_numerator |-> VInt(4),
                 signature_denominator |-> VInt(4), track_count |-> VInt(8),
                 master_track |-> VStr("Master,0.8,0.5")])

FS_get_track_info(track_index) ==
    SuccessWith([index |-> track_index,
                 name |-> VStr("Track " \o Fmt(track_index)),
                 volume |-> VFloat("0.8"), panning |-> VFloat("0.5"),
                 mute |-> VBool(FALSE), solo |-> VBool(FALSE),
                 arm |-> VBool(FALSE), color |-> VList(3)])

\* _process_command: the response, or the exception that leaves it
\* (raised: command.get / params.get on a value that is no dict).
FS_process_command(command) ==
    LET ty == Get(command, "type", VNull)
        p == Get(command, "params", VDict(NoKeys))
        g(key) == Get(p, key, VNull)
        needs == ty.t = "str" /\ ty.s \in
                    SupportedCommands \ {"get_session_info", "start_playback",
                                         "stop_playback", "get_plugin_list"}
        ret(r) == [raised |-> FALSE, resp |-> r, msg |-> ""]
        exc(m) == [raised |-> TRUE, resp |-> Error(m), msg |-> m]
    IN  IF ~HasGet(command) THEN exc(NoGetMsg(command))
        ELSE IF needs /\ ~HasGet(p) THEN exc(NoGetMsg(p))
        ELSE IF ty.t # "str"
        THEN ret(Error("Unknown command type: " \o Fmt(ty)))
        ELSE CASE ty.s = "get_session_info" -> ret(FS_get_session_info)
               [] ty.s = "get_track_info" ->
                    ret(FS_get_track_info(Get(p, "track_index", VInt(0))))
               [] ty.s = "create_midi_track" ->
                    ret(FS_create_midi_track(Get(p, "index", VInt(-1))))
               [] ty.s = "set_track_name" ->
                    ret(FS_set_track_name(g("track_index"), g("name")))
               [] ty.s = "create_pattern" ->
                    ret(FS_create_pattern(g("name"), Get(p, "length", VInt(16))))
               [] ty.s = "add_notes_to_pattern" ->
                    ret(FS_add_notes_to_pattern(g("pattern_index"), g("track_index"),
                                                Get(p, "notes", VList(0))))
               [] ty.s = "set_pattern_name" ->
                    ret(FS_set_pattern_name(g("pattern_index"), g("name")))
               [] ty.s = "set_tempo" -> ret(FS_set_tempo(g("tempo")))
               [] ty.s = "play_pattern" -> ret(FS_play_pattern(g("pattern_index")))
               [] ty.s = "stop_pattern" -> ret(FS_stop_pattern(g("pattern_index")))
               [] ty.s = "start_playback" -> ret(Success)
               [] ty.s = "stop_playback" -> ret(Success)
               [] ty.s = "get_plugin_list" -> ret(SuccessWith([plugins |-> VList(13)]))
               [] ty.s = "load_plugin" ->
                    ret(FS_load_plugin(g("track_index"), g("plugin_name")))
               [] OTHER -> ret(Error("Unknown command type: " \o ty.s))

(***************************************************************************)
(* Simplified script FLStudioMCPSimple: _process_command.                  *)
(***************************************************************************)
SI_get_session_info(api, host, hostOk) ==
    IF ~api
    THEN Ok([tempo |-> VInt(120), track_count |-> VInt(8),
             simulation |-> VBool(TRUE)], host)
    ELSE IF ~hostOk THEN Raise(HostError, host)
    ELSE Ok([tempo |-> host.tempo, track_count |-> VInt(host.channelCount),
             simulation |-> VBool(FALSE)], host)

LtError(v) == "'<' not supported between instances of '" \o v.t \o "' and 'int'"

SI_create_midi_track(index, api, host, hostOk) ==
    IF ~api
    THEN IF ~IsNumber(index) THEN Raise(CmpError(index), host)
         ELSE Ok([index |-> IF index.i >= 0 THEN index ELSE VInt(0),
                  simulation |-> VBool(TRUE)], host)
    ELSE IF ~IsNumber(index) THEN Raise(LtError(index), host)
    ELSE IF ~hostOk THEN Raise(HostError, host)
    ELSE LET found == IF index.i >= 0 THEN index
                      ELSE IF host.freeChannel >= 0 THEN VInt(host.freeChannel)
                      ELSE VInt(host.channelCount - 1)
         IN  Ok([index |-> found, simulation |-> VBool(FALSE)],
                [host EXCEPT !.selChannel = found])

SI_set_track_name(track_index, name, api, host, hostOk) ==
    IF ~api THEN Ok(NoKeys, host)
    ELSE IF ~hostOk THEN Raise(HostError, host)
    ELSE Ok(NoKeys, [host EXCEPT !.chanName = name])

SI_process_command(command, api, host, hostOk) ==
    LET ty == Get(command, "type", VStr(""))
        p == Get(command, "params", VDict(NoKeys))
        wrap(outcome, keep) ==
            [resp |-> IF ~outcome.ok THEN ErrorKeepingResult(outcome.msg)
                      ELSE IF keep
                      THEN [status |-> "success", result |-> outcome.result]
                      ELSE [status |-> "success", result |-> VDict(NoKeys)],
             host |-> outcome.host]
    IN  IF ty = VStr("get_session_info")
        THEN wrap(SI_get_session_info(api, host, hostOk), TRUE)
        ELSE IF ty = VStr("create_midi_track")
        THEN IF ~HasGet(p) THEN wrap(Raise(NoGetMsg(p), host), TRUE)
             ELSE wrap(SI_create_midi_track(Get(p, "index", VInt(-1)),
                                            api, host, hostOk), TRUE)
        ELSE IF ty = VStr("set_track_name")
        THEN IF ~HasGet(p) THEN wrap(Raise(NoGetMsg(p), host), FALSE)
             ELSE wrap(SI_set_track_name(Get(p, "track_index", VNull),
                                         Get(p, "name", VNull), api, host, hostOk),
                       FALSE)
        ELSE wrap(Ok([message |-> VStr("Command " \o Fmt(ty) \o " acknowledged")],
                     host), TRUE)


(***************************************************************************)
(* FLStudioClient._get_simulated_response.  rndTrack and rndPattern are    *)
(* the draws of random.randint(1, 10) and random.randint(0, 5).            *)
(***************************************************************************)
Returned(value, sim) == [kind |-> "returned", value |-> value, msg |-> "", sim |-> sim]

Raised(msg) == [kind |-> "raised", value |-> VNull, msg |-> msg, sim |-> FALSE]

NoOutcome == [kind |-> "none", value |-> VNull, msg |-> "", sim |-> FALSE]

get_simulated_response(command_type, params, rndTrack, rndPattern) ==
    CASE command_type = "create_midi_track" ->
           IF ~HasGet(params) THEN Raised(NoGetMsg(params))
           ELSE LET track_index == Get(params, "index", VInt(-1))
                IN  IF ~IsNumber(track_index) THEN Raised(LtError(track_index))
                    ELSE Returned(VDict([index |-> IF track_index.i < 0
                                                   THEN VInt(rndTrack)
                                                   ELSE track_index]), TRUE)
      [] command_type \in {"set_track_name", "add_notes_to_pattern", "set_tempo",
                           "load_plugin"} ->
           Returned(VDict([status |-> VStr("success")]), TRUE)
      [] command_type = "create_pattern" ->
           Returned(VDict([index |-> VInt(rndPattern)]), TRUE)
      [] command_type = "get_plugin_list" ->
           Returned(VDict([plugins |-> VList(10)]), TRUE)
      [] OTHER ->
           Returned(VDict([status |-> VStr("success"),
                           message |-> VStr("Simulated response")]), TRUE)


(***************************************************************************)
(* Bounds of the model and constants of the program.                       *)
(***************************************************************************)
MaxConns == 2           \* connections that exist at one time

MaxCalls == 1           \* send_command calls a client makes

MaxDirect == 3          \* connect()/disconnect() calls the application makes

MaxDirectLive == 1      \* the same, in the runs of Spec

MaxSends == 1           \* documents the raw peer writes

MaxPeers == 2           \* connections the two peers open

MaxPeerSends == 2       \* writes the two peers make

MaxBurst == 3           \* commands a peer writes on its connection

MaxOrder == 2           \* commands a peer writes back to back

MaxSeqCalls == 2        \* send_command calls a client makes one after another

MaxRawConns == 1        \* connections the raw peer opens

DocLen == 2             \* pieces a read may cut one JSON document into

TIMEOUT == 10           \* response_queue.get(timeout=10.0), in seconds

RecvTimeout == 5        \* self.sock.settimeout(5.0)

max_reconnect_attempts == 3

RandTrackMax == 10      \* random.randint(1, 10)

RandPatternMax == 5     \* random.randint(0, 5)

Quantum == RecvTimeout  \* the clock advances in steps of the shortest timeout

Variants == {"remote", "standalone", "simple"}

Conns == 1..MaxConns

Clients == {1}

\* The FLStudioClient instances of the process; those beyond Clients are
\* used where a claim is about more than one.
Sessions == {1, 2}

VARIABLES
    SIMULATION_MODE,    \* fl_client.py's global flag
    session,            \* per client: connected, sock, reconnect_attempts
    cpc,                \* per client: where its thread is in send_command
    ccall,              \* per client: the arguments of the current send_command
    cret,               \* per client: how the last send_command ended
    cwait,              \* per client: seconds spent in the current recv
    cstat,              \* per client: calls made, and what the last call saw
    net,                \* per connection: the two byte streams and closed ends
    variant,            \* which server is listening
    api,                \* FL_STUDIO_API_AVAILABLE
    running,            \* the server's running flag
    listening,          \* the listening socket is open
    acceptor,           \* where the accept loop's thread is
    host,               \* the host application's state
    handler,            \* per connection: the _handle_client thread
    tasks,              \* the task threads of mutating commands
    execs,              \* per transmission tag: _process_command invocations
    raw,                \* the raw peer: writes made, connections opened, and
                        \* the connection and the document of each write
    fin, fout           \* input and output of a function under test

clientVars == <<SIMULATION_MODE, session, cpc, ccall, cret, cwait, cstat>>

serverVars == <<variant, api, running, listening, acceptor, host, handler, tasks,
                execs>>

funVars == <<fin, fout>>

vars == <<clientVars, net, serverVars, raw, funVars>>

(***************************************************************************)
(* Codec.  The bytes of json.dumps(doc) are DocLen pieces in order; a byte *)
(* string is a sequence of pieces.  json.loads accepts exactly the pieces  *)
(* of one document, all of them, in order.  tag names the transmission and *)
(* is not part of the bytes.                                               *)
(***************************************************************************)
dumps(doc, tag) == [j \in 1..DocLen |-> [doc |-> doc, k |-> j, tag |-> tag]]

loads(bytes) ==
    IF /\ Len(bytes) = DocLen
       /\ \A j \in 1..Len(bytes) :
            bytes[j].k = j /\ bytes[j].doc = bytes[1].doc /\ bytes[j].tag = bytes[1].tag
    THEN [ok |-> TRUE, doc |-> bytes[1].doc, tag |-> bytes[1].tag]
    ELSE [ok |-> FALSE, doc |-> VNull, tag |-> 0]

(***************************************************************************)
(* Connections and handler threads.  A connection both ends have closed is *)
(* gone, and its slot is free again.                                       *)
(***************************************************************************)
FreeConn ==
    [open |-> FALSE, c2s |-> << >>, s2c |-> << >>, cclosed |-> FALSE,
     sclosed |-> FALSE, rst |-> FALSE]

OpenConn == [FreeConn EXCEPT !.open = TRUE]

NoHandler ==
    [pc |-> "none", buffer |-> << >>, queue |-> << >>, waited |-> 0, task |-> 0,
     tag |-> 0, why |-> ""]

FreeSlots == {k \in Conns : ~net[k].open}

NewSock == CHOOSE k \in FreeSlots : \A j \in FreeSlots : k <= j

\* Whether a connection attempt can be decided: it succeeds when the server
\* listens, and is refused when it does not.
Reachable == listening

CanDecideConnect == ~listening \/ FreeSlots # {}

Gone(n, k) == n[k].cclosed /\ n[k].sclosed

Settle(n, h) ==
    /\ net' = [k \in Conns |-> IF Gone(n, k) THEN FreeConn ELSE n[k]]
    /\ handler' = [k \in Conns |-> IF Gone(n, k) THEN NoHandler ELSE h[k]]

\* socket.close() by the client / by the server; bytes the closing side has
\* not read make the close a reset.
ClientClose(n, k) ==
    [n EXCEPT ![k].cclosed = TRUE, ![k].s2c = << >>]

ServerClose(n, k) ==
    [n EXCEPT ![k].sclosed = TRUE, ![k].rst = (n[k].c2s # << >>), ![k].c2s = << >>]

ServerWrite(n, k, resp, tag) ==
    IF n[k].cclosed THEN n ELSE [n EXCEPT ![k].s2c = @ \o dumps(resp, tag)]

\* sendall to a peer that has closed may still succeed (the bytes are lost)
\* or raise.
ServerSendOutcomes(n, k) == IF n[k].cclosed THEN BOOLEAN ELSE {TRUE}

(***************************************************************************)
(* The servers: accept loop, _handle_client, task threads.                 *)
(***************************************************************************)
HostOutcomes == IF api THEN BOOLEAN ELSE {TRUE}

\* The task threads that are running, by the tag of their command.
NoTasks == [t \in {} |-> 0]

Count(tag) == IF tag \in DOMAIN execs THEN execs[tag] ELSE 0

Executed(tag) == (tag :> Count(tag) + 1) @@ execs

\* The handler thread leaves its loop and closes the socket (finally:).
Closed(h, why) ==
    [h EXCEPT !.pc = "closed", !.why = why, !.buffer = << >>, !.queue = << >>,
              !.waited = 0, !.task = 0, !.tag = 0]

\* The end of one iteration of `while self.running:`.
Iterate(h) == IF running THEN [h EXCEPT !.pc = "recv"] ELSE Closed(h, "stopped")

\* The accept loop takes a connection and starts its handler thread; the
\* loop condition it reads next holds, and it is in accept() again.
Accept(k) ==
    /\ acceptor = "accept" /\ listening
    /\ net[k].open /\ handler[k].pc = "none"
    /\ handler' = [handler EXCEPT ![k].pc = "recv"]
    /\ UNCHANGED <<clientVars, net, variant, api, running, listening, acceptor, host,
                   tasks, execs, raw, funVars>>

\* A stop that clears the flag and leaves the listening socket open.
StopKeepsListening ==
    /\ running
    /\ running' = FALSE
    /\ UNCHANGED <<clientVars, net, variant, api, listening, acceptor, host,
                   handler, tasks, execs, raw, funVars>>

\* stop() / disconnect(): the flag, then the listening socket; connections
\* still in the backlog are dropped with it.
Stop ==
    /\ running
    /\ running' = FALSE
    /\ listening' = FALSE
    /\ LET backlog == {k \in Conns : net[k].open /\ handler[k].pc = "none"}
       IN  Settle([k \in Conns |->
                     IF k \in backlog THEN ServerClose(net, k)[k] ELSE net[k]],
                  [k \in Conns |->
                     IF k \in backlog THEN Closed(handler[k], "never accepted")
                     ELSE handler[k]])
    /\ UNCHANGED <<clientVars, variant, api, acceptor, host, tasks, execs, raw,
                   funVars>>

\* A server process is started once the one before it has wound down.
Start ==
    /\ ~running
    /\ \A k \in Conns : handler[k].pc \in {"none", "closed"}
    /\ tasks = NoTasks
    /\ running' = TRUE
    /\ listening' = TRUE
    /\ acceptor' = "accept"
    /\ UNCHANGED <<clientVars, net, variant, api, host, handler, tasks, execs, raw,
                   funVars>>

\* A connection the listening socket holds for the next accept().
Pending(k) == net[k].open /\ handler[k].pc = "none"

\* accept() raised socket.timeout after server.settimeout(1.0): no connection
\* came in; `continue` (`pass` in the standalone server).
AcceptTimeout ==
    /\ acceptor = "accept" /\ listening
    /\ \A k \in Conns : ~Pending(k)
    /\ acceptor' = "test"
    /\ UNCHANGED <<clientVars, net, variant, api, running, listening, host,
                   handler, tasks, execs, raw, funVars>>

\* accept() on the closed listening socket raises (or the call that was
\* waiting runs into its timeout); the exception is swallowed.
AcceptRaises ==
    /\ acceptor = "accept" /\ ~listening
    /\ acceptor' = "test"
    /\ UNCHANGED <<clientVars, net, variant, api, running, listening, host,
                   handler, tasks, execs, raw, funVars>>

\* `while self.running:` is read.
LoopTest ==
    /\ acceptor = "test"
    /\ acceptor' = IF running THEN "accept" ELSE "stopped"
    /\ UNCHANGED <<clientVars, net, variant, api, running, listening, host,
                   handler, tasks, execs, raw, funVars>>

AcceptLoopStep == AcceptTimeout \/ AcceptRaises \/ LoopTest

\* recv returned b"" (the peer closed): break.
HandlerEOF(k) ==
    /\ handler[k].pc = "recv"
    /\ net[k].c2s = << >> /\ net[k].cclosed
    /\ Settle(ServerClose(net, k), [handler EXCEPT ![k] = Closed(@, "eof")])
    /\ UNCHANGED <<clientVars, variant, api, running, listening, acceptor, host, tasks,
                   execs, raw, funVars>>

\* Standalone server only: recv timed out (0.5 s), `continue`, and the loop
\* condition is read again.
HandlerPoll(k) ==
    /\ variant = "standalone"
    /\ handler[k].pc = "recv" /\ ~running
    /\ net[k].c2s = << >> /\ ~net[k].cclosed
    /\ Settle(ServerClose(net, k), [handler EXCEPT ![k] = Closed(@, "stopped")])
    /\ UNCHANGED <<clientVars, variant, api, running, listening, acceptor, host, tasks,
                   execs, raw, funVars>>

\* After a response was written (or the write raised): next iteration, or
\* the loop is left.
AfterWrite(k, h, n, resp, tag, sendOk) ==
    LET h1 == IF sendOk THEN Iterate(h) ELSE Closed(h, "io")
        n1 == IF sendOk THEN ServerWrite(n, k, resp, tag) ELSE n
    IN  Settle(IF h1.pc = "closed" THEN ServerClose(n1, k) ELSE n1,
               [handler EXCEPT ![k] = h1])

\* Remote Script, one iteration of _handle_client on the bytes `data`.
RS_handle(k, n, data) ==
    LET h == handler[k]
        buf == h.buffer \o data
        p == loads(buf)
        command == p.doc
    IN  IF ~p.ok
        THEN \* json.JSONDecodeError: incomplete data, wait for more
             /\ Settle(IF running THEN n ELSE ServerClose(n, k),
                       [handler EXCEPT ![k] = Iterate([h EXCEPT !.buffer = buf])])
             /\ UNCHANGED <<host, tasks, execs>>
        ELSE IF ~HasGet(command)
        THEN \* command.get raises: the error response is written, then break
             /\ Settle(ServerClose(ServerWrite(n, k, Error(NoGetMsg(command)), p.tag), k),
                       [handler EXCEPT ![k] = Closed(h, "fault")])
             /\ UNCHANGED <<host, tasks, execs>>
        ELSE IF RS_is_mutating(command)
        THEN \* the task thread is started, the handler waits on its queue
             /\ tasks' = (p.tag :> [conn |-> k, cmd |-> command, live |-> TRUE]) @@ tasks
             /\ Settle(n, [handler EXCEPT ![k] =
                             [h EXCEPT !.pc = "wait", !.buffer = << >>,
                                       !.queue = << >>, !.waited = 0,
                                       !.task = p.tag, !.tag = p.tag]])
             /\ execs' = Executed(p.tag)
             /\ UNCHANGED host
        ELSE \E hostOk \in HostOutcomes, sendOk \in ServerSendOutcomes(n, k) :
               /\ AfterWrite(k, [h EXCEPT !.buffer = << >>], n,
                             RS_direct(command, api, host, hostOk), p.tag, sendOk)
               /\ execs' = Executed(p.tag)
               /\ UNCHANGED <<host, tasks>>

\* Standalone server: each read is parsed on its own.
FS_handle(k, n, data) ==
    LET h == handler[k]
        p == loads(data)
        r == FS_process_command(p.doc)
        resp == IF ~p.ok THEN Error("Invalid JSON")
                ELSE IF r.raised THEN Error(r.msg) ELSE r.resp
    IN  \E sendOk \in ServerSendOutcomes(n, k) :
          /\ AfterWrite(k, h, n, resp, IF p.ok THEN p.tag ELSE data[1].tag, sendOk)
          /\ execs' = IF p.ok THEN Executed(p.tag) ELSE execs
          /\ UNCHANGED <<host, tasks>>

\* Simplified script: any exception leaves the loop.
SI_handle(k, n, data) ==
    LET h == handler[k]
        p == loads(data)
    IN  IF ~p.ok \/ ~HasGet(p.doc)
        THEN /\ Settle(ServerClose(n, k),
                       [handler EXCEPT ![k] =
                          Closed(h, IF p.ok THEN "fault" ELSE "frame")])
             /\ UNCHANGED <<host, tasks, execs>>
        ELSE \E hostOk \in HostOutcomes, sendOk \in ServerSendOutcomes(n, k) :
               LET r == SI_process_command(p.doc, api, host, hostOk)
               IN  /\ AfterWrite(k, h, n, r.resp, p.tag, sendOk)
                   /\ host' = r.host
                   /\ execs' = Executed(p.tag)
                   /\ UNCHANGED tasks

\* A handler that reads the next command while the last one still waits for
\* its task.
HandlerRecvPipelined(k) ==
    /\ handler[k].pc \in {"recv", "wait"}
    /\ net[k].c2s # << >>
    /\ \E m \in 1..Len(net[k].c2s) :
         LET data == SubSeq(net[k].c2s, 1, m)
             n == [net EXCEPT ![k].c2s = SubSeq(@, m + 1, Len(@))]
         IN  \/ variant = "remote" /\ RS_handle(k, n, data)
             \/ variant = "standalone" /\ FS_handle(k, n, data)
             \/ variant = "simple" /\ SI_handle(k, n, data)
    /\ UNCHANGED <<clientVars, variant, api, running, listening, acceptor, raw, funVars>>

\* recv returned some of the bytes that have arrived.
HandlerRecv(k) ==
    /\ handler[k].pc = "recv"
    /\ net[k].c2s # << >>
    /\ \E m \in 1..Len(net[k].c2s) :
         LET data == SubSeq(net[k].c2s, 1, m)
             n == [net EXCEPT ![k].c2s = SubSeq(@, m + 1, Len(@))]
         IN  \/ variant = "remote" /\ RS_handle(k, n, data)
             \/ variant = "standalone" /\ FS_handle(k, n, data)
             \/ variant = "simple" /\ SI_handle(k, n, data)
    /\ UNCHANGED <<clientVars, variant, api, running, listening, acceptor, raw, funVars>>

\* A task that puts its outcome on the queue the connection's handler reads
\* now, whichever command that handler is waiting for.
TaskPutsSharedQueue(t) ==
    /\ \E hostOk \in HostOutcomes :
         LET outcome == RS_task(tasks[t].cmd, api, host, hostOk)
             k == tasks[t].conn
         IN  /\ host' = outcome.host
             /\ handler' = IF handler[k].pc = "wait"
                           THEN [handler EXCEPT ![k].queue = <<RS_queue_item(outcome)>>]
                           ELSE handler
    /\ tasks' = [u \in DOMAIN tasks \ {t} |-> tasks[u]]
    /\ UNCHANGED <<clientVars, net, variant, api, running, listening, acceptor, execs,
                   raw, funVars>>

\* A task whose effect on the host shows while the task is still running.
TaskApplies(t) ==
    /\ \E hostOk \in HostOutcomes :
         host' = RS_task(tasks[t].cmd, api, host, hostOk).host
    /\ UNCHANGED <<clientVars, net, variant, api, running, listening, acceptor, handler,
                   tasks, execs, raw, funVars>>

\* A task thread runs its handler to the end and puts the outcome on its
\* queue; nobody reads the queue of a dispatcher that has stopped waiting.
TaskFinish(t) ==
    /\ \E hostOk \in HostOutcomes :
         LET outcome == RS_task(tasks[t].cmd, api, host, hostOk)
             k == tasks[t].conn
         IN  /\ host' = outcome.host
             /\ handler' = IF tasks[t].live
                           THEN [handler EXCEPT ![k].queue = <<RS_queue_item(outcome)>>]
                           ELSE handler
    /\ tasks' = [u \in DOMAIN tasks \ {t} |-> tasks[u]]
    /\ UNCHANGED <<clientVars, net, variant, api, running, listening, acceptor, execs,
                   raw, funVars>>

\* A wait that gives up after the client's read timeout instead of its own.
WaitExpiredEarly(waited) == waited >= RecvTimeout

WaitExpired(waited) == waited >= TIMEOUT

\* A dispatcher whose timeout cancels the task it stops waiting for.
DispatcherReturnCancels(k) ==
    LET h == handler[k]
        resp == RS_wait_response(h.queue)
        h1 == [h EXCEPT !.queue = << >>, !.waited = 0, !.task = 0, !.tag = 0]
    IN  /\ h.pc = "wait"
        /\ h.queue # << >> \/ WaitExpired(h.waited)
        /\ \E sendOk \in ServerSendOutcomes(net, k) :
             AfterWrite(k, h1, net, resp, h.tag, sendOk)
        /\ tasks' = [t \in DOMAIN tasks \ {h.task} |-> tasks[t]]
        /\ UNCHANGED <<clientVars, variant, api, running, listening, acceptor, host, execs,
                       raw, funVars>>

\* response_queue.get(timeout=10.0) returns an item or raises queue.Empty,
\* and the response is written.
DispatcherReturn(k) ==
    LET h == handler[k]
        resp == RS_wait_response(h.queue)
        h1 == [h EXCEPT !.queue = << >>, !.waited = 0, !.task = 0, !.tag = 0]
    IN  /\ h.pc = "wait"
        /\ h.queue # << >> \/ WaitExpired(h.waited)
        /\ \E sendOk \in ServerSendOutcomes(net, k) :
             AfterWrite(k, h1, net, resp, h.tag, sendOk)
        /\ tasks' = [t \in DOMAIN tasks |->
                        IF t = h.task THEN [tasks[t] EXCEPT !.live = FALSE]
                        ELSE tasks[t]]
        /\ UNCHANGED <<clientVars, variant, api, running, listening, acceptor, host, execs,
                       raw, funVars>>

\* Time passes for every thread inside a bounded wait.
Timed == {k \in Conns : handler[k].pc = "wait"}

Receiving == {c \in Sessions : cpc[c] = "recv"}

Tick ==
    /\ Timed # {} \/ Receiving # {}
    /\ \A k \in Timed : ~WaitExpired(handler[k].waited)
    /\ \A c \in Receiving : cwait[c] < RecvTimeout
    /\ handler' = [k \in Conns |->
                     IF k \in Timed THEN [handler[k] EXCEPT !.waited = @ + Quantum]
                     ELSE handler[k]]
    /\ cwait' = [c \in Sessions |-> IF c \in Receiving THEN cwait[c] + Quantum ELSE cwait[c]]
    /\ UNCHANGED <<SIMULATION_MODE, session, cpc, ccall, cret, cstat, net,
                   variant, api, running, listening, acceptor, host, tasks, execs, raw, funVars>>

ServerStep ==
    \/ \E k \in Conns : Accept(k)
    \/ \E k \in Conns : HandlerEOF(k)
    \/ \E k \in Conns : HandlerPoll(k)
    \/ \E k \in Conns : HandlerRecv(k)
    \/ \E k \in Conns : DispatcherReturn(k)
    \/ \E t \in DOMAIN tasks : TaskFinish(t)
    \/ Stop
    \/ Tick

(***************************************************************************)
(* A raw peer: any program that connects to the port and writes JSON       *)
(* documents (test_connection.py, fl_studio_test.py do so by hand).        *)
(***************************************************************************)
Command(type, params) == VDict([type |-> type, params |-> params])

RawDocs ==
    {Command(VStr("get_session_info"), VDict(NoKeys)),
     Command(VStr("set_tempo"), VDict([tempo |-> VInt(120)])),
     Command(VStr("create_midi_track"), VDict([index |-> VStr("x")])),
     Command(VStr("X"), VDict(NoKeys)),
     VList(0)}

RawConnect(max) ==
    /\ listening /\ FreeSlots # {}
    /\ raw.conns < max
    /\ net' = [net EXCEPT ![NewSock] = OpenConn]
    /\ raw' = [raw EXCEPT !.conns = @ + 1]
    /\ UNCHANGED <<clientVars, serverVars, funVars>>

RawSend(k, doc, max) ==
    /\ net[k].open /\ ~net[k].cclosed
    /\ raw.sent < max
    /\ net' = IF net[k].sclosed THEN net
              ELSE [net EXCEPT ![k].c2s = @ \o dumps(doc, raw.sent + 1)]
    /\ raw' = [raw EXCEPT !.sent = @ + 1, !.on = Append(@, k),
                          !.what = Append(@, doc)]
    /\ UNCHANGED <<clientVars, serverVars, funVars>>

\* Bytes that are not JSON and are the beginning of no JSON document, such
\* as b"hello".
NotJson(tag) == <<[doc |-> VNull, k |-> 0, tag |-> tag]>>

\* The peer writes something that is not a document.
RawSendText(k, max) ==
    /\ net[k].open /\ ~net[k].cclosed
    /\ raw.sent < max
    /\ net' = IF net[k].sclosed THEN net
              ELSE [net EXCEPT ![k].c2s = @ \o NotJson(raw.sent + 1)]
    /\ raw' = [raw EXCEPT !.sent = @ + 1, !.on = Append(@, k),
                          !.what = Append(@, VNull)]
    /\ UNCHANGED <<clientVars, serverVars, funVars>>

RawRecv(k) ==
    /\ net[k].open /\ ~net[k].cclosed
    /\ net[k].s2c # << >>
    /\ net' = [net EXCEPT ![k].s2c = << >>]
    /\ UNCHANGED <<clientVars, serverVars, raw, funVars>>

RawClose(k) ==
    /\ net[k].open /\ ~net[k].cclosed
    /\ Settle(ClientClose(net, k), handler)
    /\ UNCHANGED <<clientVars, variant, api, running, listening, acceptor, host, tasks,
                   execs, raw, funVars>>

RawStep ==
    \/ RawConnect(MaxRawConns)
    \/ \E k \in Conns, doc \in RawDocs : RawSend(k, doc, MaxSends)
    \/ \E k \in Conns : RawSendText(k, MaxSends)
    \/ \E k \in Conns : RawRecv(k)
    \/ \E k \in Conns : RawClose(k)

\* Two peers on the same server, each on a connection of its own.
PeerDocs ==
    {Command(VStr("get_session_info"), VDict(NoKeys)),
     Command(VStr("set_tempo"), VDict([tempo |-> VInt(120)]))}

PeerStep ==
    \/ RawConnect(MaxPeers)
    \/ \E k \in Conns, doc \in PeerDocs : RawSend(k, doc, MaxPeerSends)
    \/ \E k \in Conns : RawSendText(k, MaxPeerSends)
    \/ \E k \in Conns : RawRecv(k)
    \/ \E k \in Conns : RawClose(k)

(***************************************************************************)
(* FLStudioClient: connect, disconnect and send_command.  The thread of a  *)
(* client inside send_command is at "entry" (lines 92-106), "send" (117),  *)
(* "recv" (124) or "retry" (the sleep of line 146); "idle" outside it.     *)
(***************************************************************************)
NoSock == 0             \* self.sock = None

Unconnected == -1       \* self.sock is a socket object whose connect() failed

EmptyJsonMsg == "Expecting value: line 1 column 1 (char 0)"

TruncatedJsonMsg == "Unterminated string"

LostMsg(m) == "Connection to FL Studio lost: " \o m

RaisedLost(m) == [kind |-> "raised", value |-> VNull, msg |-> LostMsg(m), sim |-> FALSE]

\* A connect() whose failures are not counted.
connectNoCount(s, n, sim, up) ==
    IF sim THEN [ok |-> TRUE, s |-> s, n |-> n]
    ELSE IF s.connected /\ s.sock # NoSock THEN [ok |-> TRUE, s |-> s, n |-> n]
    ELSE LET n0 == IF s.sock > 0 THEN ClientClose(n, s.sock) ELSE n
             free == {k \in Conns : ~n0[k].open}
             k == CHOOSE j \in free : \A l \in free : j <= l
         IN  IF up
             THEN [ok |-> TRUE,
                   s |-> [s EXCEPT !.connected = TRUE, !.sock = k],
                   n |-> [n0 EXCEPT ![k] = OpenConn]]
             ELSE [ok |-> FALSE, s |-> [s EXCEPT !.sock = Unconnected], n |-> n0]

\* connect(): the session and the network it leaves, and the value returned.
\* up says whether the server's listening socket takes the connection.
connect(s, n, sim, up) ==
    IF sim THEN [ok |-> TRUE, s |-> s, n |-> n]
    ELSE IF s.connected /\ s.sock # NoSock THEN [ok |-> TRUE, s |-> s, n |-> n]
    ELSE LET n0 == IF s.sock > 0 THEN ClientClose(n, s.sock) ELSE n
             free == {k \in Conns : ~n0[k].open}
             k == CHOOSE j \in free : \A l \in free : j <= l
         IN  IF up
             THEN [ok |-> TRUE,
                   s |-> [s EXCEPT !.connected = TRUE, !.sock = k],
                   n |-> [n0 EXCEPT ![k] = OpenConn]]
             ELSE [ok |-> FALSE,
                   s |-> [s EXCEPT !.sock = Unconnected, !.reconnect_attempts = @ + 1],
                   n |-> n0]

\* A disconnect() that also forgets the failures counted so far.
disconnectResets(s, n) ==
    IF s.sock = NoSock THEN [s |-> s, n |-> n]
    ELSE [s |-> [s EXCEPT !.sock = NoSock, !.connected = FALSE,
                          !.reconnect_attempts = 0],
          n |-> IF s.sock > 0 THEN ClientClose(n, s.sock) ELSE n]

\* A disconnect() that closes and forgets the socket and keeps the flag.
disconnectKeepsConnected(s, n) ==
    IF s.sock = NoSock THEN [s |-> s, n |-> n]
    ELSE [s |-> [s EXCEPT !.sock = NoSock],
          n |-> IF s.sock > 0 THEN ClientClose(n, s.sock) ELSE n]

disconnect(s, n) ==
    IF s.sock = NoSock THEN [s |-> s, n |-> n]
    ELSE [s |-> [s EXCEPT !.sock = NoSock, !.connected = FALSE],
          n |-> IF s.sock > 0 THEN ClientClose(n, s.sock) ELSE n]

\* The document send_command writes: "params": params or {}.
ClientCommand(call) ==
    Command(VStr(call.type), IF Falsy(call.params) THEN VDict(NoKeys) ELSE call.params)

\* send_command is called.
Call(c, call) ==
    /\ cpc[c] = "idle"
    /\ cstat[c].calls < MaxCalls
    /\ ccall' = [ccall EXCEPT ![c] = call]
    /\ cpc' = [cpc EXCEPT ![c] = "entry"]
    /\ cret' = [cret EXCEPT ![c] = NoOutcome]
    /\ cstat' = [cstat EXCEPT ![c].calls = @ + 1, ![c].tag = cstat[c].calls + 1,
                              ![c].entryFails = cstat[c].fails, ![c].fails = 0,
                              ![c].saw = "", ![c].err = "",
                              ![c].entrySim = SIMULATION_MODE,
                              ![c].op = "", ![c].ok = FALSE, ![c].sends = 0]
    /\ UNCHANGED <<SIMULATION_MODE, session, cwait, net, serverVars, raw, funVars>>

\* send_command is called again after it has returned or raised.
CallUpTo(c, call, max) ==
    /\ cpc[c] = "idle"
    /\ cstat[c].calls < max
    /\ ccall' = [ccall EXCEPT ![c] = call]
    /\ cpc' = [cpc EXCEPT ![c] = "entry"]
    /\ cret' = [cret EXCEPT ![c] = NoOutcome]
    /\ cstat' = [cstat EXCEPT ![c].calls = @ + 1, ![c].tag = cstat[c].calls + 1,
                              ![c].entryFails = cstat[c].fails, ![c].fails = 0,
                              ![c].saw = "", ![c].err = "",
                              ![c].entrySim = SIMULATION_MODE,
                              ![c].op = "", ![c].ok = FALSE, ![c].sends = 0]
    /\ UNCHANGED <<SIMULATION_MODE, session, cwait, net, serverVars, raw, funVars>>

\* return self._get_simulated_response(command_type, params)
Simulated(c) ==
    /\ \E r \in {get_simulated_response(ccall[c].type, ccall[c].params,
                                         rndTrack, rndPattern) :
                    rndTrack \in 1..RandTrackMax, rndPattern \in 0..RandPatternMax} :
         cret' = [cret EXCEPT ![c] = r]
    /\ cpc' = [cpc EXCEPT ![c] = "idle"]

\* A send_command that drops the connection when it answers in simulation.
EntryDropsSession(c) ==
    /\ cpc[c] = "entry"
    /\ SIMULATION_MODE
    /\ Simulated(c)
    /\ LET d == disconnect(session[c], net)
       IN  /\ session' = [session EXCEPT ![c] = d.s]
           /\ Settle(d.n, handler)
    /\ UNCHANGED <<SIMULATION_MODE, ccall, cwait, cstat, variant, api, running,
                   listening, acceptor, host, tasks, execs, raw, funVars>>

\* Lines 92-106: the simulation check, then the connection check.
Entry(c) ==
    /\ cpc[c] = "entry"
    /\ IF SIMULATION_MODE
       THEN /\ Simulated(c)
            /\ UNCHANGED <<SIMULATION_MODE, session, net, handler>>
       ELSE IF session[c].connected
       THEN /\ cpc' = [cpc EXCEPT ![c] = "send"]
            /\ UNCHANGED <<SIMULATION_MODE, session, cret, net, handler>>
       ELSE /\ CanDecideConnect
            /\ LET r == connect(session[c], net, SIMULATION_MODE, Reachable)
               IN  /\ Settle(r.n, handler)
                   /\ IF r.ok
                      THEN /\ session' = [session EXCEPT ![c] = r.s]
                           /\ cpc' = [cpc EXCEPT ![c] = "send"]
                           /\ UNCHANGED <<SIMULATION_MODE, cret>>
                      ELSE IF r.s.reconnect_attempts >= max_reconnect_attempts
                      THEN /\ session' = [session EXCEPT ![c] = r.s]
                           /\ SIMULATION_MODE' = TRUE
                           /\ Simulated(c)
                      ELSE /\ session' = [session EXCEPT ![c] =
                                            [r.s EXCEPT !.reconnect_attempts = @ + 1]]
                           /\ UNCHANGED <<SIMULATION_MODE, cpc, cret>>
    /\ UNCHANGED <<ccall, cwait, cstat, variant, api, running, listening, acceptor, host,
                   tasks, execs, raw, funVars>>

\* A socket error after which the socket is kept for the retry.
SocketErrorKeepsSocket(c, saw) ==
    /\ cpc' = [cpc EXCEPT ![c] = "retry"]
    /\ cstat' = [cstat EXCEPT ![c].saw = saw]
    /\ UNCHANGED <<SIMULATION_MODE, session, net, handler, cret, cwait>>

\* except socket.error: disconnect, then the sleep before the reconnect.
SocketError(c, saw) ==
    LET d == disconnect(session[c], net)
    IN  /\ session' = [session EXCEPT ![c] = d.s]
        /\ Settle(d.n, handler)
        /\ cpc' = [cpc EXCEPT ![c] = "retry"]
        /\ cstat' = [cstat EXCEPT ![c].saw = saw]
        /\ UNCHANGED <<SIMULATION_MODE, cret, cwait>>

\* except Exception: disconnect and raise "Connection to FL Studio lost".
LostRaise(c, saw, m) ==
    LET d == disconnect(session[c], net)
    IN  /\ session' = [session EXCEPT ![c] = d.s]
        /\ Settle(d.n, handler)
        /\ cpc' = [cpc EXCEPT ![c] = "idle"]
        /\ cret' = [cret EXCEPT ![c] = RaisedLost(m)]
        /\ cstat' = [cstat EXCEPT ![c].saw = saw,
                                  ![c].err = IF saw = "error" THEN m ELSE @]
        /\ UNCHANGED <<SIMULATION_MODE, cwait>>

\* self.sock.sendall(json.dumps(command)): to a peer that has closed, the
\* bytes are lost or the call raises.
Send(c) ==
    LET k == session[c].sock
    IN  /\ cpc[c] = "send"
        /\ \/ /\ net' = IF net[k].sclosed THEN net
                        ELSE [net EXCEPT ![k].c2s =
                                @ \o dumps(ClientCommand(ccall[c]), cstat[c].tag)]
              /\ cpc' = [cpc EXCEPT ![c] = "recv"]
              /\ cwait' = [cwait EXCEPT ![c] = 0]
              /\ UNCHANGED <<SIMULATION_MODE, session, cret, cstat, handler>>
           \/ /\ net[k].sclosed
              /\ SocketError(c, "senderr")
        /\ UNCHANGED <<ccall, variant, api, running, listening, acceptor, host, tasks, execs,
                       raw, funVars>>

\* Send(c), with the transmissions of the call counted in cstat[c].sends.
SendCounted(c) ==
    LET k == session[c].sock
    IN  /\ cpc[c] = "send"
        /\ \/ /\ net' = IF net[k].sclosed THEN net
                        ELSE [net EXCEPT ![k].c2s =
                                @ \o dumps(ClientCommand(ccall[c]), cstat[c].tag)]
              /\ cpc' = [cpc EXCEPT ![c] = "recv"]
              /\ cwait' = [cwait EXCEPT ![c] = 0]
              /\ cstat' = [cstat EXCEPT ![c].sends = @ + 1]
              /\ UNCHANGED <<SIMULATION_MODE, session, cret, handler>>
           \/ /\ net[k].sclosed
              /\ SocketError(c, "senderr")
        /\ UNCHANGED <<ccall, variant, api, running, listening, acceptor, host, tasks, execs,
                       raw, funVars>>

\* A send_command that returns the result and keeps the attempts counted.
RecvKeepsCount(c) ==
    LET k == session[c].sock
    IN  /\ cpc[c] = "recv"
        /\ \/ /\ net[k].s2c # << >>
              /\ \E m \in 1..Len(net[k].s2c) :
                   LET p == loads(SubSeq(net[k].s2c, 1, m))
                   IN  IF ~p.ok THEN LostRaise(c, "truncated", TruncatedJsonMsg)
                       ELSE IF p.doc.status = "error"
                       THEN LostRaise(c, "error", p.doc.message)
                       ELSE /\ UNCHANGED session
                            /\ cret' = [cret EXCEPT ![c] =
                                          Returned(IF "result" \in DOMAIN p.doc
                                                   THEN p.doc.result
                                                   ELSE VDict(NoKeys), FALSE)]
                            /\ cpc' = [cpc EXCEPT ![c] = "idle"]
                            /\ net' = [net EXCEPT ![k].s2c = SubSeq(@, m + 1, Len(@))]
                            /\ UNCHANGED <<SIMULATION_MODE, cwait, cstat, handler>>
           \/ /\ net[k].s2c = << >> /\ net[k].sclosed
              /\ IF net[k].rst THEN SocketError(c, "reset")
                 ELSE LostRaise(c, "empty", EmptyJsonMsg)
           \/ /\ net[k].s2c = << >> /\ ~net[k].sclosed
              /\ cwait[c] >= RecvTimeout
              /\ SocketError(c, "timeout")
        /\ UNCHANGED <<ccall, variant, api, running, listening, acceptor, host, tasks, execs,
                       raw, funVars>>

\* self.sock.recv(8192), json.loads and the status check.
Recv(c) ==
    LET k == session[c].sock
    IN  /\ cpc[c] = "recv"
        /\ \/ /\ net[k].s2c # << >>
              /\ \E m \in 1..Len(net[k].s2c) :
                   LET p == loads(SubSeq(net[k].s2c, 1, m))
                   IN  IF ~p.ok THEN LostRaise(c, "truncated", TruncatedJsonMsg)
                       ELSE IF p.doc.status = "error"
                       THEN LostRaise(c, "error", p.doc.message)
                       ELSE /\ session' = [session EXCEPT ![c].reconnect_attempts = 0]
                            /\ cret' = [cret EXCEPT ![c] =
                                          Returned(IF "result" \in DOMAIN p.doc
                                                   THEN p.doc.result
                                                   ELSE VDict(NoKeys), FALSE)]
                            /\ cpc' = [cpc EXCEPT ![c] = "idle"]
                            /\ net' = [net EXCEPT ![k].s2c = SubSeq(@, m + 1, Len(@))]
                            /\ UNCHANGED <<SIMULATION_MODE, cwait, cstat, handler>>
           \/ /\ net[k].s2c = << >> /\ net[k].sclosed
              /\ IF net[k].rst THEN SocketError(c, "reset")
                 ELSE LostRaise(c, "empty", EmptyJsonMsg)
           \/ /\ net[k].s2c = << >> /\ ~net[k].sclosed
              /\ cwait[c] >= RecvTimeout
              /\ SocketError(c, "timeout")
        /\ UNCHANGED <<ccall, variant, api, running, listening, acceptor, host, tasks, execs,
                       raw, funVars>>

\* A retry that does not count itself.
RetryKeepsCount(c) ==
    /\ cpc[c] = "retry"
    /\ IF session[c].reconnect_attempts < max_reconnect_attempts
       THEN /\ CanDecideConnect
            /\ LET r == connect(session[c], net, SIMULATION_MODE, Reachable)
               IN  /\ session' = [session EXCEPT ![c] = r.s]
                   /\ Settle(r.n, handler)
                   /\ IF r.ok
                      THEN /\ cpc' = [cpc EXCEPT ![c] = "entry"]
                           /\ UNCHANGED <<SIMULATION_MODE, cret>>
                      ELSE /\ SIMULATION_MODE' = TRUE
                           /\ Simulated(c)
       ELSE /\ SIMULATION_MODE' = TRUE
            /\ Simulated(c)
            /\ UNCHANGED <<session, net, handler>>
    /\ UNCHANGED <<ccall, cwait, cstat, variant, api, running, listening, acceptor, host,
                   tasks, execs, raw, funVars>>

\* Lines 143-152: one more connection attempt while attempts remain, else
\* simulation mode.
Retry(c) ==
    /\ cpc[c] = "retry"
    /\ IF session[c].reconnect_attempts < max_reconnect_attempts
       THEN /\ CanDecideConnect
            /\ LET s1 == [session[c] EXCEPT !.reconnect_attempts = @ + 1]
                   r == connect(s1, net, SIMULATION_MODE, Reachable)
               IN  /\ session' = [session EXCEPT ![c] = r.s]
                   /\ Settle(r.n, handler)
                   /\ IF r.ok
                      THEN /\ cpc' = [cpc EXCEPT ![c] = "entry"]
                           /\ UNCHANGED <<SIMULATION_MODE, cret>>
                      ELSE /\ SIMULATION_MODE' = TRUE
                           /\ Simulated(c)
       ELSE /\ SIMULATION_MODE' = TRUE
            /\ Simulated(c)
            /\ UNCHANGED <<session, net, handler>>
    /\ UNCHANGED <<ccall, cwait, cstat, variant, api, running, listening, acceptor, host,
                   tasks, execs, raw, funVars>>

\* A connect() that leaves simulation mode.
ClientConnectLeavesSimulation(c, max) ==
    /\ cpc[c] = "idle"
    /\ cstat[c].direct < max
    /\ SIMULATION_MODE' = FALSE
    /\ cstat' = [cstat EXCEPT ![c].direct = @ + 1, ![c].op = "connect",
                              ![c].ok = TRUE]
    /\ UNCHANGED <<session, cpc, ccall, cret, cwait, net, serverVars, raw, funVars>>

\* connect() and disconnect() called by the application itself.
ClientConnect(c, max) ==
    /\ cpc[c] = "idle"
    /\ cstat[c].direct < max
    /\ CanDecideConnect
    /\ LET r == connect(session[c], net, SIMULATION_MODE, Reachable)
       IN  /\ session' = [session EXCEPT ![c] = r.s]
           /\ Settle(r.n, handler)
           /\ cstat' = [cstat EXCEPT ![c].direct = @ + 1,
                                     ![c].fails = IF r.ok THEN 0 ELSE @ + 1,
                                     ![c].op = "connect", ![c].ok = r.ok]
    /\ UNCHANGED <<SIMULATION_MODE, cpc, ccall, cret, cwait, variant, api, running,
                   listening, acceptor, host, tasks, execs, raw, funVars>>

ClientDisconnect(c, max) ==
    /\ cpc[c] = "idle"
    /\ cstat[c].direct < max
    /\ LET d == disconnect(session[c], net)
       IN  /\ session' = [session EXCEPT ![c] = d.s]
           /\ Settle(d.n, handler)
    /\ cstat' = [cstat EXCEPT ![c].direct = @ + 1, ![c].op = "disconnect",
                              ![c].ok = FALSE]
    /\ UNCHANGED <<SIMULATION_MODE, cpc, ccall, cret, cwait, variant, api, running,
                   listening, acceptor, host, tasks, execs, raw, funVars>>

\* set_simulation_mode(enabled), called by the application between its
\* calls of the client.
set_simulation_mode(enabled) ==
    /\ \A c \in Sessions : cpc[c] = "idle"
    /\ SIMULATION_MODE' = enabled
    /\ UNCHANGED <<session, cpc, ccall, cret, cwait, cstat, net, serverVars, raw,
                   funVars>>

\* The calls the application makes.
ClientCalls ==
    {[type |-> "get_session_info", params |-> VNull],
     [type |-> "set_tempo", params |-> VDict([tempo |-> VInt(120)])],
     [type |-> "create_midi_track", params |-> VNull],
     [type |-> "X", params |-> VNull]}

ClientStep ==
    \/ \E c \in Clients, call \in ClientCalls : Call(c, call)
    \/ \E c \in Clients : Entry(c)
    \/ \E c \in Clients : Send(c)
    \/ \E c \in Clients : Recv(c)
    \/ \E c \in Clients : Retry(c)
    \/ \E c \in Clients : ClientConnect(c, MaxDirectLive)
    \/ \E c \in Clients : ClientDisconnect(c, MaxDirectLive)

(***************************************************************************)
(* The dispatchers as functions: one _process_command call on a command    *)
(* drawn from the command table.                                           *)
(***************************************************************************)
FullParams ==
    [track_index |-> VInt(1), pattern_index |-> VInt(1), name |-> VStr("Lead"),
     notes |-> VList(2), tempo |-> VInt(120), plugin_name |-> VStr("FLEX"),
     index |-> VInt(2), length |-> VInt(8)]

Without(f, keys) == [key \in DOMAIN f \ keys |-> f[key]]

\* All the parameters, all but one, none, and one of the wrong type.
ParamSets ==
    {VDict(Without(FullParams, {key})) : key \in DOMAIN FullParams}
        \cup {VDict(FullParams), VDict(NoKeys), VDict([index |-> VStr("x")])}

DispatchTypes == SupportedCommands \cup {"X", ""}

NoResponse == [status |-> "none"]

Dispatch ==
    /\ fout = NoResponse
    /\ \/ /\ variant = "remote"
          /\ LET r == RS_process_command(fin.command, api, host, fin.hostOk, fin.inTime)
             IN  fout' = r.resp /\ host' = r.host
       \/ /\ variant = "standalone"
          /\ fout' = FS_process_command(fin.command).resp
          /\ host' = host
       \/ /\ variant = "simple"
          /\ LET r == SI_process_command(fin.command, api, host, fin.hostOk)
             IN  fout' = r.resp /\ host' = r.host
    /\ UNCHANGED <<clientVars, net, variant, api, running, listening, acceptor, handler,
                   tasks, execs, raw, fin>>

(***************************************************************************)
(* create_track of the prompt front end (fl_studio_prompt.py) over the     *)
(* helper functions of fl_client.py.                                       *)
(***************************************************************************)

\* The response of the server to one command, and the host it leaves.
Answer(v, command, a, h, hostOk, inTime) ==
    IF v = "remote" THEN RS_process_command(command, a, h, hostOk, inTime)
    ELSE [resp |-> FS_process_command(command).resp, host |-> h]

\* send_command, lines 131-138: what the call makes of the parsed response.
ResultOf(response) ==
    IF response.status = "error"
    THEN RaisedLost(IF "message" \in DOMAIN response THEN response.message
                    ELSE "Unknown error from FL Studio")
    ELSE Returned(IF "result" \in DOMAIN response THEN response.result
                  ELSE VDict(NoKeys), FALSE)

\* fl_client.create_midi_track(): the command it sends for index = -1.
client_create_midi_track ==
    Command(VStr("create_midi_track"), VDict([index |-> VInt(-1)]))

\* fl_client.set_track_name(track_index, name): the command it sends, with
\* name passed through str().
client_set_track_name(track_index, name) ==
    Command(VStr("set_track_name"),
            VDict([track_index |-> track_index, name |-> VStr(Fmt(name))]))

\* create_track(name): the two responses, the value returned (None is
\* VNull) and the host left behind.
create_track(name, v, a, h, hostOk, inTime1, inTime2) ==
    LET a1 == Answer(v, client_create_midi_track, a, h, hostOk, inTime1)
        result == ResultOf(a1.resp)
        none(second, h2) ==
            [first |-> a1.resp, second |-> second, ret |-> VNull, host |-> h2]
    IN  IF result.kind = "raised" THEN none(NoResponse, a1.host)
        ELSE IF Falsy(result.value) \/ result.value.t # "dict"
        THEN none(NoResponse, a1.host)
        ELSE IF "index" \notin DOMAIN result.value.d
        THEN none(NoResponse, a1.host)
        ELSE LET track_index == result.value.d.index
                 a2 == Answer(v, client_set_track_name(track_index, name), a,
                              a1.host, hostOk, inTime2)
                 name_result == ResultOf(a2.resp)
             IN  IF name_result.kind = "raised" THEN none(a2.resp, a2.host)
                 ELSE IF Falsy(name_result.value) THEN none(a2.resp, a2.host)
                 ELSE [first |-> a1.resp, second |-> a2.resp, ret |-> track_index,
                       host |-> a2.host]

\* One call of create_track against the server.
CreateTrack ==
    /\ fout = NoResponse
    /\ LET r == create_track(fin.name, variant, api, host, fin.hostOk, fin.inTime1,
                             fin.inTime2)
       IN  /\ fout' = [first |-> r.first, second |-> r.second, ret |-> r.ret]
           /\ host' = r.host
    /\ UNCHANGED <<clientVars, net, variant, api, running, listening, acceptor, handler,
                   tasks, execs, raw, fin>>

(***************************************************************************)
(* Initial states.                                                         *)
(***************************************************************************)
NoCall == [type |-> "", params |-> VNull]

NoStat ==
    [calls |-> 0, direct |-> 0, fails |-> 0, entryFails |-> 0, saw |-> "",
     err |-> "", tag |-> 0, entrySim |-> FALSE, op |-> "", ok |-> FALSE,
     sends |-> 0]

InitSession ==
    /\ session = [c \in Sessions |->
                    [connected |-> FALSE, sock |-> NoSock, reconnect_attempts |-> 0]]
    /\ cpc = [c \in Sessions |-> "idle"]
    /\ ccall = [c \in Sessions |-> NoCall]
    /\ cret = [c \in Sessions |-> NoOutcome]
    /\ cwait = [c \in Sessions |-> 0]
    /\ cstat = [c \in Sessions |-> NoStat]

InitClients == SIMULATION_MODE = FALSE /\ InitSession

InitNet == net = [k \in Conns |-> FreeConn]

InitServer ==
    /\ variant \in Variants
    /\ api \in BOOLEAN
    /\ host = Host0
    /\ handler = [k \in Conns |-> NoHandler]
    /\ tasks = NoTasks
    /\ execs = [t \in {} |-> 0]

InitRaw == raw = [sent |-> 0, conns |-> 0, on |-> << >>, what |-> << >>]

InitFun == fin = 0 /\ fout = 0

\* The servers driven by a raw peer.
InitS ==
    /\ InitClients /\ InitNet /\ InitServer /\ InitRaw /\ InitFun
    /\ running = TRUE /\ listening = TRUE /\ acceptor = "accept"

NextS == ServerStep \/ RawStep

SpecServer == InitS /\ [][NextS]_vars

\* The servers with the accept loop's thread followed through its timeouts
\* and its exit, while peers connect and close. The thread is scheduled, and
\* each accept() ends within the listening socket's timeout.
NextStop ==
    \/ RawConnect(MaxPeers)
    \/ \E k \in Conns : RawClose(k)
    \/ \E k \in Conns : Accept(k)
    \/ \E k \in Conns : HandlerEOF(k)
    \/ \E k \in Conns : HandlerPoll(k)
    \/ Stop
    \/ AcceptLoopStep

SpecStop == InitS /\ [][NextStop]_vars /\ WF_vars(AcceptLoopStep)

\* The Remote Script driven by a peer that writes several commands on its
\* connection.
BurstDocs ==
    {Command(VStr("get_session_info"), VDict(NoKeys)),
     Command(VStr("set_tempo"), VDict([tempo |-> VInt(120)])),
     Command(VStr("set_tempo"), VDict([tempo |-> VInt(90)]))}

BurstStep ==
    \/ \E k \in Conns, doc \in BurstDocs : RawSend(k, doc, MaxBurst)
    \/ \E k \in Conns : RawRecv(k)
    \/ \E k \in Conns : RawClose(k)

\* The Remote Script's threads; its reads have no timeout to poll on.
RemoteStep ==
    \/ \E k \in Conns : Accept(k)
    \/ \E k \in Conns : HandlerEOF(k)
    \/ \E k \in Conns : HandlerRecv(k)
    \/ \E k \in Conns : DispatcherReturn(k)
    \/ \E t \in DOMAIN tasks : TaskFinish(t)
    \/ Stop
    \/ Tick

NextBurst == RemoteStep \/ BurstStep

\* The peer has connected; the accept loop has not taken the connection yet.
InitBurst ==
    /\ InitClients /\ InitServer /\ InitFun
    /\ variant = "remote"
    /\ running = TRUE /\ listening = TRUE /\ acceptor = "accept"
    /\ net = [k \in Conns |-> IF k = 1 THEN OpenConn ELSE FreeConn]
    /\ raw = [sent |-> 0, conns |-> 1, on |-> << >>, what |-> << >>]

SpecBurst == InitBurst /\ [][NextBurst]_vars

\* The same peer against the two servers that answer over one loop per
\* connection, writing two commands without waiting for the first response.
OrderStep ==
    \/ \E k \in Conns, doc \in BurstDocs : RawSend(k, doc, MaxOrder)
    \/ \E k \in Conns : RawRecv(k)
    \/ \E k \in Conns : RawClose(k)

NextOrder == ServerStep \/ OrderStep

InitOrder ==
    /\ InitClients /\ InitServer /\ InitFun
    /\ variant \in {"remote", "standalone"}
    /\ running = TRUE /\ listening = TRUE /\ acceptor = "accept"
    /\ net = [k \in Conns |-> IF k = 1 THEN OpenConn ELSE FreeConn]
    /\ raw = [sent |-> 0, conns |-> 1, on |-> << >>, what |-> << >>]

SpecOrder == InitOrder /\ [][NextOrder]_vars

\* The servers driven by two peers.
NextPeers == ServerStep \/ PeerStep

SpecPeers == InitS /\ [][NextPeers]_vars

\* A client and a server that is up, or is not.
InitC ==
    /\ InitClients /\ InitNet /\ InitServer /\ InitRaw /\ InitFun
    /\ running \in BOOLEAN /\ listening = running
    /\ acceptor = IF running THEN "accept" ELSE "stopped"

Next == ClientStep \/ ServerStep

Spec == InitC /\ [][Next]_vars

\* A client and no server: the application connects, disconnects and calls.
InitDown ==
    /\ InitClients /\ InitNet /\ InitServer /\ InitRaw /\ InitFun
    /\ running = FALSE /\ listening = FALSE /\ acceptor = "stopped"

NextDown ==
    \/ \E c \in Clients, call \in ClientCalls : Call(c, call)
    \/ \E c \in Clients : Entry(c)
    \/ \E c \in Clients : ClientConnect(c, MaxDirect)
    \/ \E c \in Clients : ClientDisconnect(c, MaxDirect)

SpecDown == InitDown /\ [][NextDown]_vars

\* One client calling send_command while the Remote Script accepts or leaves
\* the connection in its backlog, answers or is late, is stopped (refusing
\* and resetting connections) and is started again.
RetryCalls == {[type |-> "get_session_info", params |-> VNull]}

InitRetry == InitC /\ variant = "remote" /\ api = FALSE

NextRetry ==
    \/ \E c \in Clients, call \in RetryCalls : Call(c, call)
    \/ \E c \in Clients : Entry(c)
    \/ \E c \in Clients : SendCounted(c)
    \/ \E c \in Clients : Recv(c)
    \/ \E c \in Clients : Retry(c)
    \/ \E k \in Conns : Accept(k)
    \/ \E k \in Conns : HandlerEOF(k)
    \/ \E k \in Conns : HandlerRecv(k)
    \/ Stop
    \/ Start
    \/ Tick

SpecRetry == InitRetry /\ [][NextRetry]_vars

\* One client making send_command calls one after another on the Remote
\* Script, which may answer after the client has stopped waiting.
SeqCalls == {[type |-> "get_session_info", params |-> VNull]}

InitSeq == InitC /\ variant = "remote" /\ api = FALSE /\ running = TRUE

NextSeq ==
    \/ \E c \in Clients, call \in SeqCalls : CallUpTo(c, call, MaxSeqCalls)
    \/ \E c \in Clients : Entry(c)
    \/ \E c \in Clients : SendCounted(c)
    \/ \E c \in Clients : Recv(c)
    \/ \E c \in Clients : Retry(c)
    \/ \E k \in Conns : Accept(k)
    \/ \E k \in Conns : HandlerEOF(k)
    \/ \E k \in Conns : HandlerRecv(k)
    \/ Tick

SpecSeq == InitSeq /\ [][NextSeq]_vars

\* A client, the application around it, and the standalone server, which is
\* started and stopped.  The standalone server answers within the handler's
\* iteration, so no recv of the client runs into its timeout here; the runs
\* with timeouts are those of Spec.
InitSessions ==
    /\ InitClients /\ InitNet /\ InitRaw /\ InitFun
    /\ variant = "standalone" /\ api = FALSE /\ host = Host0
    /\ handler = [k \in Conns |-> NoHandler]
    /\ tasks = NoTasks
    /\ execs = [t \in {} |-> 0]
    /\ running = FALSE /\ listening = FALSE /\ acceptor = "stopped"

\* The calls made in these runs: one the server answers with a result and
\* one it answers with an error.
SessionCalls ==
    {[type |-> "get_session_info", params |-> VNull],
     [type |-> "X", params |-> VNull]}

NextSessions ==
    \/ \E c \in Clients, call \in SessionCalls : Call(c, call)
    \/ \E c \in Clients : Entry(c)
    \/ \E c \in Clients : Send(c)
    \/ \E c \in Clients : Recv(c)
    \/ \E c \in Clients : Retry(c)
    \/ \E c \in Clients : ClientConnect(c, MaxDirect)
    \/ \E c \in Clients : ClientDisconnect(c, MaxDirect)
    \/ \E enabled \in BOOLEAN : set_simulation_mode(enabled)
    \/ Start
    \/ Stop
    \/ \E k \in Conns : Accept(k)
    \/ \E k \in Conns : HandlerEOF(k)
    \/ \E k \in Conns : HandlerPoll(k)
    \/ \E k \in Conns : HandlerRecv(k)

SpecSessions == InitSessions /\ [][NextSessions]_vars

\* Two FLStudioClient instances in one process and the standalone server,
\* which is started and stopped.
NextInstances ==
    \/ \E c \in Sessions, call \in SessionCalls : Call(c, call)
    \/ \E c \in Sessions : Entry(c)
    \/ \E c \in Sessions : Send(c)
    \/ \E c \in Sessions : Recv(c)
    \/ \E c \in Sessions : Retry(c)
    \/ Start
    \/ Stop
    \/ \E k \in Conns : Accept(k)
    \/ \E k \in Conns : HandlerEOF(k)
    \/ \E k \in Conns : HandlerPoll(k)
    \/ \E k \in Conns : HandlerRecv(k)

SpecInstances == InitSessions /\ [][NextInstances]_vars

\* send_command while simulation mode is active.
SimTypes == SupportedCommands \cup {"X"}

SimParams ==
    {VNull, VDict(NoKeys), VDict([index |-> VInt(2)]), VDict([index |-> VInt(-1)]),
     VDict([index |-> VStr("x")])}

SimCalls == [type : SimTypes, params : SimParams]

InitSim ==
    /\ SIMULATION_MODE = TRUE /\ InitSession
    /\ InitNet /\ InitServer /\ InitRaw /\ InitFun
    /\ running = FALSE /\ listening = FALSE /\ acceptor = "stopped"

NextSim ==
    \/ \E c \in Clients, call \in SimCalls : Call(c, call)
    \/ \E c \in Clients : Entry(c)

SpecSim == InitSim /\ [][NextSim]_vars

\* One _process_command call of each dispatcher.
InitDispatch ==
    /\ InitClients /\ InitNet /\ InitServer /\ InitRaw
    /\ running = TRUE /\ listening = TRUE /\ acceptor = "accept"
    /\ fin \in [command : {Command(VStr(ty), p) : ty \in DispatchTypes, p \in ParamSets},
                hostOk : BOOLEAN, inTime : BOOLEAN]
    /\ fout = NoResponse

NextDispatch == Dispatch

SpecDispatch == InitDispatch /\ [][NextDispatch]_vars

\* One create_track call of the prompt front end against the Remote Script
\* or the standalone server; a task of the Remote Script ends within the
\* dispatcher's wait (inTime1, inTime2) or does not.
TrackNames == {VStr("Bass"), VStr(""), VInt(7)}

InitTrack ==
    /\ InitClients /\ InitNet /\ InitServer /\ InitRaw
    /\ variant \in {"remote", "standalone"}
    /\ running = TRUE /\ listening = TRUE /\ acceptor = "accept"
    /\ fin \in [name : TrackNames, hostOk : BOOLEAN, inTime1 : BOOLEAN,
                inTime2 : BOOLEAN]
    /\ fout = NoResponse

NextTrack == CreateTrack

SpecTrack == InitTrack /\ [][NextTrack]_vars

(***************************************************************************)
(* Properties.                                                             *)
(***************************************************************************)
Done(c) == cpc[c] = "idle" /\ cret[c] # NoOutcome

\* C1: a command passed to one send_command call is executed by the server's
\* _process_command at most once, also when the client's read times out or
\* the socket errors and the client reconnects and retries.
C1_ConsumedOnce == \A t \in DOMAIN execs : execs[t] <= 1

\* C2: send_command does not raise because the server closed the connection
\* (empty read), reset it, delivered a truncated response, or the read timed
\* out: it ends by returning a result.
C2_FaultsNeverRaise ==
    \A c \in Clients :
       (Done(c) /\ cstat[c].saw \in {"empty", "reset", "truncated", "timeout"})
          => cret[c].kind = "returned"

\* C3: a send_command call made while simulation mode is active returns a
\* result and does not raise, for every command type and every params value,
\* None included.
C3_SimulationNeverRaises ==
    \A c \in Clients :
       (Done(c) /\ cstat[c].entrySim) => cret[c].kind = "returned"

\* C4: with max_reconnect_attempts = 3 and no reachable server, the
\* send_command call that follows three consecutive failed connect() calls
\* returns a simulated result without raising, and simulation mode is active
\* afterwards.
C4_FallbackAfterThreeFailures ==
    \A c \in Clients :
       (Done(c) /\ ~listening /\ cstat[c].entryFails >= max_reconnect_attempts)
          => (cret[c].kind = "returned" /\ cret[c].sim /\ SIMULATION_MODE)

HasResult(r) == "result" \in DOMAIN r /\ r.result # VDict(NoKeys)

HasMessage(r) == "message" \in DOMAIN r

Dispatched == fout # NoResponse

DispatchedType == fin.command.d.type.s

DispatchedParams == fin.command.d.params

\* C5: for every supported command type and every params mapping, the
\* response of _process_command (Remote Script and standalone server) has
\* exactly one of result and message populated: a result and no message when
\* status is success, a message and no result when status is error.
C5_ExactlyOneOfResultMessage ==
    (Dispatched /\ variant \in {"remote", "standalone"}
                /\ DispatchedType \in SupportedCommands)
       => /\ fout.status \in {"success", "error"}
          /\ fout.status = "success" => (HasResult(fout) /\ ~HasMessage(fout))
          /\ fout.status = "error" => (HasMessage(fout) /\ ~HasResult(fout))

\* C6: for a command whose type is not a supported command name, each of the
\* three dispatchers returns status=error with the message "Unknown command: "
\* followed by the type, and runs no handler (the host is untouched).
C6_UnknownCommand ==
    (Dispatched /\ DispatchedType \notin SupportedCommands)
       => /\ fout.status = "error"
          /\ HasMessage(fout)
          /\ fout.message = "Unknown command: " \o DispatchedType
          /\ host = Host0

\* The required parameters of the command table.
RequiredParams ==
    [get_track_info |-> {"track_index"},
     set_track_name |-> {"track_index", "name"},
     add_notes_to_pattern |-> {"track_index", "pattern_index", "notes"},
     set_pattern_name |-> {"pattern_index", "name"},
     set_tempo |-> {"tempo"},
     play_pattern |-> {"pattern_index"},
     stop_pattern |-> {"pattern_index"},
     load_plugin |-> {"track_index", "plugin_name"}]

\* C7: a command dispatched with one of its required parameters absent gets
\* status=error with a message, and the host state is not changed: the
\* handler is not run with a default in the parameter's place (Remote Script
\* and standalone server).
C7_MissingRequiredParam ==
    (Dispatched /\ variant \in {"remote", "standalone"}
                /\ DispatchedType \in DOMAIN RequiredParams
                /\ \E key \in RequiredParams[DispatchedType] :
                      key \notin DOMAIN DispatchedParams.d)
       => (fout.status = "error" /\ HasMessage(fout) /\ host = Host0)

\* C8: in the Remote Script and the standalone server, a fault while a
\* decoded message is processed (a handler that raises, a JSON value that is
\* not an object) never makes the connection's handler leave its loop and
\* close the connection.
C8_FaultKeepsConnection ==
    \A k \in Conns :
       variant \in {"remote", "standalone"} => handler[k].why # "fault"

IsTimeoutResponse(r) ==
    r.status = "error" /\ HasMessage(r) /\ r.message = TimeoutMsg

\* C9: the response the Remote Script writes at the end of a mutating
\* command's wait is the error "Timeout waiting for operation to complete"
\* if and only if the task has put nothing on the response queue when the
\* 10 s wait expires; it is never written before the 10 s are over, and an
\* outcome that is on the queue is the response: its result on success, its
\* message on error.
C9_TimeoutIffNoOutcomeAtExpiry ==
    [][\A k \in Conns :
         (handler[k].pc = "wait" /\ handler'[k].pc # "wait" /\ ~net[k].cclosed)
            => LET q == handler[k].queue
                   out == net'[k].s2c
                   resp == out[Len(out)].doc
               IN  /\ Len(out) = Len(net[k].s2c) + DocLen
                   /\ IsTimeoutResponse(resp)
                         <=> (q = << >> /\ handler[k].waited >= TIMEOUT)
                   /\ q # << >> =>
                         /\ resp.status = Head(q).status
                         /\ Head(q).status = "success" => resp.result = Head(q).result
                         /\ Head(q).status = "error" => resp.message = Head(q).message
      ]_vars

\* A timeout response has been written to a connection.
C9_TimeoutWritten ==
    \E k \in Conns :
       /\ variant = "remote"
       /\ net[k].s2c # << >>
       /\ IsTimeoutResponse(net[k].s2c[1].doc)

\* C10: when the server answers with status=error, send_command gives its
\* caller that error (the server's message), not a lost connection, and the
\* session stays connected on the same socket.
C10_DispatchErrorSurfaced ==
    \A c \in Clients :
       (Done(c) /\ cstat[c].saw = "error")
          => /\ cret[c] # RaisedLost(cstat[c].err)
             /\ session[c].connected
             /\ session[c].sock > 0


\* C14: send_command switches simulation mode on only once reconnect_attempts
\* has exceeded max_reconnect_attempts: a step of send_command that sets the
\* flag leaves the session with reconnect_attempts > max_reconnect_attempts.
C14_SimulationOnlyAfterExceeded ==
    [][(~SIMULATION_MODE /\ SIMULATION_MODE')
          => \A c \in Clients : cpc[c] # "idle"
                => session'[c].reconnect_attempts > max_reconnect_attempts]_vars

\* C16: between calls a session is connected with a socket, or not connected
\* with no socket.
C16_ConnectedIffSock ==
    \A c \in Clients :
        cpc[c] = "idle" =>
            \/ session[c].connected /\ session[c].sock # NoSock
            \/ ~session[c].connected /\ session[c].sock = NoSock

\* C17: a connect() that opens a socket leaves connected = True and
\* reconnect_attempts = 0.
C17_ConnectResetsAttempts ==
    [][\A c \in Clients :
         (session[c].sock <= 0 /\ session'[c].sock > 0)
            => session'[c].connected /\ session'[c].reconnect_attempts = 0]_vars

\* The step is a connect() / disconnect() the application called on c.
DirectOp(c, op) ==
    cstat'[c].direct = cstat[c].direct + 1 /\ cstat'[c].op = op

\* C18: a connect() that fails returns False, leaves connected = False and
\* has increased reconnect_attempts by exactly 1.
C18_FailedConnectCountsOne ==
    [][\A c \in Clients :
         (DirectOp(c, "connect") /\ ~cstat'[c].ok)
            => /\ cpc'[c] = "idle"
               /\ ~session'[c].connected
               /\ session'[c].reconnect_attempts
                    = session[c].reconnect_attempts + 1]_vars

\* Two connect() calls have failed, one after the other.
C18_ConnectFailedTwice ==
    \E c \in Clients :
        /\ cstat[c].op = "connect" /\ ~cstat[c].ok
        /\ cstat[c].fails = 2
        /\ session[c].reconnect_attempts = 2
        /\ ~session[c].connected

\* C19: disconnect() closes the socket the session holds, leaves
\* connected = False and sock = None, and changes neither the simulation
\* flag nor reconnect_attempts.
C19_DisconnectFrame ==
    [][\A c \in Clients :
         DirectOp(c, "disconnect")
            => /\ ~session'[c].connected
               /\ session'[c].sock = NoSock
               /\ SIMULATION_MODE' = SIMULATION_MODE
               /\ session'[c].reconnect_attempts = session[c].reconnect_attempts
               /\ session[c].sock > 0
                    => \/ net'[session[c].sock].cclosed
                       \/ ~net'[session[c].sock].open]_vars

\* disconnect() was called on a session that had counted a failure and held
\* a connected socket: the server still holds its end of the connection the
\* client has closed.
C19_DisconnectedHeldSocket ==
    \E c \in Clients, k \in Conns :
        /\ cstat[c].op = "disconnect"
        /\ session[c].sock = NoSock /\ ~session[c].connected
        /\ session[c].reconnect_attempts > 0
        /\ net[k].open /\ net[k].cclosed /\ ~net[k].sclosed

\* C15: simulation mode is sticky: the only step that turns the flag off is
\* set_simulation_mode(False).
C15_SimulationSticky ==
    [][(SIMULATION_MODE /\ ~SIMULATION_MODE') => set_simulation_mode(FALSE)]_vars

\* send_command switched simulation mode on, the server has become
\* reachable, the application has called connect() since, and the flag is on.
C15_StillSimulatedAfterConnect ==
    \E c \in Clients :
        /\ Done(c) /\ ~cstat[c].entrySim /\ cret[c].sim
        /\ cstat[c].op = "connect"
        /\ running /\ listening
        /\ SIMULATION_MODE

\* C20: in simulation mode send_command returns a simulated response and
\* leaves the session and every connection as they were.
C20_SimulationBypassesNetwork ==
    [][\A c \in Clients :
         (cpc[c] = "entry" /\ SIMULATION_MODE /\ cpc'[c] # "entry")
            => /\ cpc'[c] = "idle"
               /\ cret'[c].kind = "returned" /\ cret'[c].sim
               /\ session' = session
               /\ net' = net]_vars

\* A call answered in simulation mode while the session is connected.
C20_SimulatedWhileConnected ==
    \E c \in Clients :
        /\ Done(c) /\ cstat[c].entrySim /\ cret[c].sim
        /\ session[c].connected /\ session[c].sock > 0
        /\ net[session[c].sock].open
        /\ net[session[c].sock].c2s = << >>

\* The bytes are the beginning of one JSON document, with more to come.
IncompletePrefix(b) ==
    /\ b # << >> /\ Len(b) < DocLen
    /\ \A j \in 1..Len(b) :
         b[j].k = j /\ b[j].doc = b[1].doc /\ b[j].tag = b[1].tag

\* The bytes are not one JSON document and no bytes after them make them one.
NeverValid(b) ==
    /\ b # << >>
    /\ ~loads(b).ok
    /\ ~IncompletePrefix(b)

\* The step is one iteration of the handler of connection k that read bytes.
ReadStep(k) ==
    /\ handler[k].pc = "recv"
    /\ net[k].c2s # << >>
    /\ Len(net'[k].c2s) < Len(net[k].c2s)

\* What the handler of connection k does with the first m of the bytes that
\* have arrived, read on top of the bytes it holds: an incomplete prefix is
\* kept, nothing is written and the connection stays; a complete command is
\* dispatched once and the buffer is empty again.
AccumulatesRead(k, m) ==
    LET b == handler[k].buffer \o SubSeq(net[k].c2s, 1, m)
        rest == SubSeq(net[k].c2s, m + 1, Len(net[k].c2s))
    IN  IF IncompletePrefix(b)
        THEN /\ net'[k].open /\ ~net'[k].sclosed
             /\ net'[k].s2c = net[k].s2c
             /\ net'[k].c2s = rest
             /\ handler'[k].pc = "recv"
             /\ handler'[k].buffer = b
             /\ execs' = execs
        ELSE (loads(b).ok /\ HasGet(loads(b).doc))
                => /\ handler'[k].buffer = << >>
                   /\ execs' = Executed(loads(b).tag)

\* C12: a command that arrives split across several reads is accumulated:
\* every iteration of a handler that reads bytes does, for the number of
\* bytes it read, what AccumulatesRead says.
C12_SplitCommandAccumulated ==
    [][\A k \in Conns :
         (ReadStep(k) /\ running)
            => \E m \in 1..Len(net[k].c2s) : AccumulatesRead(k, m)]_vars

\* C13: a handler that has read bytes which can never become one valid JSON
\* document closes the connection.
C13_NeverValidCloses ==
    [][\A k \in Conns :
         (ReadStep(k) /\ running
            /\ NeverValid(handler[k].buffer \o <<Head(net[k].c2s)>>))
            => net'[k].sclosed \/ ~net'[k].open]_vars

\* The responses written to connection k that nobody has read yet, by the
\* write they answer.
Unread(k, tag) == {j \in 1..Len(net[k].s2c) : net[k].s2c[j].tag = tag}

\* C11: with two peers on the same server every response is on the
\* connection its command arrived on, no command has more than one response,
\* and the responses on a connection are in the order of the commands.
C11_ResponsesRoutedOncePerCommand ==
    \A k \in Conns :
        /\ \A j \in 1..Len(net[k].s2c) :
             /\ net[k].s2c[j].tag \in 1..Len(raw.on)
             /\ raw.on[net[k].s2c[j].tag] = k
        /\ \A tag \in 1..Len(raw.on) : Cardinality(Unread(k, tag)) <= DocLen
        /\ \A i, j \in 1..Len(net[k].s2c) :
             i < j => net[k].s2c[i].tag <= net[k].s2c[j].tag

\* C21: simulation mode belongs to one session: a send_command returns a
\* simulated response only on a session that has itself failed to connect.
C21_SimulationOwnedBySession ==
    \A c \in Sessions :
        (Done(c) /\ cret[c].sim) => session[c].reconnect_attempts > 0

\* What send_command returns for the dispatched response:
\* response.get("result", {}).
LiveResult == IF "result" \in DOMAIN fout THEN fout.result ELSE VDict(NoKeys)

\* C22: for every supported command the simulated response has the result
\* keys of the result a server returns for the same command and params.
C22_SimulatedShapeMatchesLive ==
    (Dispatched /\ DispatchedType \in SupportedCommands /\ fout.status = "success")
       => \A rndTrack \in 1..RandTrackMax, rndPattern \in 0..RandPatternMax :
            LET sim == get_simulated_response(DispatchedType, DispatchedParams,
                                              rndTrack, rndPattern)
            IN  /\ sim.kind = "returned"
                /\ DOMAIN sim.value.d = DOMAIN LiveResult.d

\* The index create_midi_track is called with: params.get("index", -1).
RequestedIndex == Get(DispatchedParams, "index", VInt(-1))

\* C23: create_midi_track with an integer index, answered in time by a host
\* that accepts the API calls, returns status=success with result.index >= 0,
\* and with result.index equal to the index asked for when that is >= 0.
C23_CreateMidiTrackIndex ==
    ( /\ Dispatched /\ DispatchedType = "create_midi_track"
      /\ RequestedIndex.t = "int"
      /\ fin.hostOk /\ fin.inTime )
       => /\ fout.status = "success"
          /\ "result" \in DOMAIN fout
          /\ "index" \in DOMAIN fout.result.d
          /\ fout.result.d.index.i >= 0
          /\ RequestedIndex.i >= 0 => fout.result.d.index = RequestedIndex

\* The write with this tag was a get_session_info command / a command of a
\* mutating type.
InfoSent(tag) ==
    /\ tag \in 1..Len(raw.what)
    /\ raw.what[tag] = Command(VStr("get_session_info"), VDict(NoKeys))

MutatingSent(tag) ==
    /\ tag \in 1..Len(raw.what)
    /\ raw.what[tag] # VNull
    /\ RS_is_mutating(raw.what[tag])

\* The piece begins the response that answers a get_session_info.
InfoAnswer(piece) ==
    piece.k = 1 /\ InfoSent(piece.tag) /\ piece.doc.status = "success"

SessionInfo == RS_from_outcome(RS_get_session_info(api, host, TRUE))

\* A response to a get_session_info was written to connection k in the step.
InfoWritten(k) ==
    /\ Len(net'[k].s2c) = Len(net[k].s2c) + DocLen
    /\ InfoAnswer(net'[k].s2c[Len(net[k].s2c) + 1])

RunningMutating == {t \in DOMAIN tasks : RS_is_mutating(tasks[t].cmd)}

\* C25: at any time at most one task thread runs a mutating handler against
\* the host state, across all connections and, on one connection, after a
\* dispatcher timeout.
C25_OneMutatingAtATime == Cardinality(RunningMutating) <= 1

(***************************************************************************)
(* C26: one response per decoded command, late outcomes dropped.           *)
(***************************************************************************)

\* The step appended exactly one response document to connection k, and it
\* carries the tag of the command it answers.
WroteOne(k, tag) ==
    LET old == Len(net[k].s2c)
    IN  /\ Len(net'[k].s2c) = old + DocLen
        /\ SubSeq(net'[k].s2c, 1, old) = net[k].s2c
        /\ \A j \in 1..DocLen :
             /\ net'[k].s2c[old + j].tag = tag
             /\ net'[k].s2c[old + j].k = j
             /\ net'[k].s2c[old + j].doc = net'[k].s2c[old + 1].doc

\* The response document is about the command: a success of a set_tempo
\* reports the tempo that command asked for.
AnswersCommand(doc, command) ==
    (doc.status = "success" /\ RS_type(command) = VStr("set_tempo"))
       => doc.result.d.tempo = Get(RS_params(command), "tempo", VInt(120))

\* The handler of k finished a command in this step: a dispatcher that was
\* waiting returned, or a command was decoded and answered in one go.
FinishedCommand(k, tag) ==
    \/ /\ handler[k].pc = "wait" /\ handler[k].tag = tag
       /\ handler'[k].pc # "wait"
    \/ /\ handler[k].pc = "recv" /\ handler'[k].pc # "wait"
       /\ Count(tag) = 0 /\ execs' # execs /\ tag \in DOMAIN execs'

\* C26: on a connection of the Remote Script each decoded command gets
\* exactly one response, written when its handling ends; nothing else is
\* ever written, and a response never carries the outcome of another
\* command's late task.
C26_OneResponsePerCommand ==
    [][\A k \in Conns :
          /\ \A tag \in 1..Len(raw.what) :
               (FinishedCommand(k, tag) /\ ~net[k].cclosed)
                  => /\ WroteOne(k, tag)
                     /\ AnswersCommand(net'[k].s2c[Len(net[k].s2c) + 1].doc,
                                       raw.what[tag])
          /\ Len(net'[k].s2c) > Len(net[k].s2c)
               => \E tag \in 1..Len(raw.what) : FinishedCommand(k, tag)]_vars

\* The first set_tempo was answered with the timeout error and its task
\* ended after the task of the second set_tempo; the second response
\* reports the second command's own tempo.
C26_LateOutcomeDropped ==
    \E k \in Conns :
        /\ Len(net[k].s2c) >= 2 * DocLen
        /\ net[k].s2c[1].tag = 1 /\ MutatingSent(1)
        /\ net[k].s2c[1].doc = ErrorKeepingResult(TimeoutMsg)
        /\ net[k].s2c[DocLen + 1].tag = 2
        /\ raw.what[2] = Command(VStr("set_tempo"), VDict([tempo |-> VInt(90)]))
        /\ net[k].s2c[DocLen + 1].doc = SuccessWith([tempo |-> VInt(90)])
        /\ DOMAIN tasks = {}
        /\ raw.what[1] = Command(VStr("set_tempo"), VDict([tempo |-> VInt(120)]))
        /\ host.tempo = VInt(120)

(***************************************************************************)
(* C27: the dispatcher's timeout does not cancel the task.                 *)
(***************************************************************************)

\* The dispatcher of connection k gives up its wait in this step: the queue
\* is still empty, so the timeout error is what it answers.
TimesOut(k) ==
    /\ handler[k].pc = "wait" /\ handler[k].queue = << >>
    /\ handler'[k].pc # "wait"

\* C27: when the Remote Script answers a mutating command with the timeout
\* error the command's task is still running after that step, with its
\* effect on the host still to come: the client is told status=error for an
\* operation that is applied afterwards.
C27_TimeoutDoesNotCancel ==
    [][\A k \in Conns :
          TimesOut(k)
             => /\ handler[k].task \in DOMAIN tasks'
                /\ tasks'[handler[k].task].cmd = raw.what[handler[k].tag]
                /\ host' = host
                /\ ~net[k].cclosed
                     => /\ WroteOne(k, handler[k].tag)
                        /\ net'[k].s2c[Len(net[k].s2c) + 1].doc
                             = ErrorKeepingResult(TimeoutMsg)]_vars

\* The client has the timeout error for its set_tempo in hand, unread, and
\* the host runs at the tempo that command asked for.
C27_ErrorThenApplied ==
    \E k \in Conns :
        /\ api
        /\ Len(net[k].s2c) = DocLen
        /\ net[k].s2c[1].tag = 1
        /\ net[k].s2c[1].doc = ErrorKeepingResult(TimeoutMsg)
        /\ raw.what[1] = Command(VStr("set_tempo"), VDict([tempo |-> VInt(90)]))
        /\ Host0.tempo # VInt(90)
        /\ host.tempo = VInt(90)

(***************************************************************************)
(* C28: one command at a time per connection, in arrival order.            *)
(***************************************************************************)

\* The command written with this tag is dispatched in this step.
Dispatches(tag) == tag \in DOMAIN execs' /\ execs'[tag] > Count(tag)

\* The handler of k is between the dispatch of a command and the write of
\* its response.
InFlight(k) == handler[k].pc = "wait"

\* C28: a connection's handler dispatches a command only when no earlier
\* command of the connection is waiting for its response, commands are
\* dispatched in the order they arrived, the response is written in the
\* dispatching step or by the end of the wait that step begins, and every
\* response written answers a command that arrived after the ones answered
\* before it.
C28_NoPipelining ==
    [][\A k \in Conns :
          /\ \A tag \in 1..Len(raw.on) :
               (raw.on[tag] = k /\ Dispatches(tag))
                  => /\ ~InFlight(k)
                     /\ \A u \in DOMAIN execs : raw.on[u] = k => u < tag
                     /\ \/ handler'[k].pc = "wait" /\ handler'[k].tag = tag
                        \/ WroteOne(k, tag)
                        \/ net[k].cclosed
          /\ Len(net'[k].s2c) > Len(net[k].s2c)
               => \E tag \in 1..Len(raw.on) :
                    /\ WroteOne(k, tag)
                    /\ InFlight(k) => handler[k].tag = tag /\ ~InFlight(k)'
                    /\ \A j \in 1..Len(net[k].s2c) : net[k].s2c[j].tag <= tag
                    /\ \A u \in DOMAIN execs' : raw.on[u] = k => u <= tag]_vars

\* Two commands were written back to back; the first had to wait for its
\* task, and both responses are on the connection, in that order.
C28_SecondAfterFirstAnswered ==
    \E k \in Conns :
        /\ variant = "remote"
        /\ Len(net[k].s2c) = 2 * DocLen
        /\ MutatingSent(1) /\ Count(1) = 1 /\ Count(2) = 1
        /\ net[k].s2c[1].tag = 1 /\ net[k].s2c[DocLen + 1].tag = 2
        /\ net[k].s2c[1].doc.status = "success"
        /\ net[k].s2c[DocLen + 1].doc.status = "success"

(***************************************************************************)
(* C29: every blocking operation of a handler is bounded.                  *)
(***************************************************************************)

\* The handler thread of k is inside its loop.
InLoop(k) == handler[k].pc \in {"recv", "wait"}

\* A step the handler thread of k takes by itself, whatever its client does:
\* a read that returns (bytes, end of stream or its timeout), or the end of
\* the dispatcher's bounded wait as time passes.
HandlerCanMove(k) ==
    \/ ENABLED HandlerRecv(k)
    \/ ENABLED HandlerEOF(k)
    \/ ENABLED HandlerPoll(k)
    \/ ENABLED DispatcherReturn(k)
    \/ handler[k].pc = "wait" /\ ENABLED Tick

\* C29: once running is false no handler is left inside a wait that nothing
\* ends: each handler still in its loop has a step of its own to take, also
\* when its client stays connected and writes nothing, so it goes on to
\* leave the loop and close its connection.
C29_NoUnboundedWait ==
    \A k \in Conns : (~running /\ InLoop(k)) => HandlerCanMove(k)

(***************************************************************************)
(* C30: stop ends the accept loop.                                         *)
(***************************************************************************)

\* The accept loop hands connection k to a new handler thread in this step.
Accepts(k) == handler[k].pc = "none" /\ handler'[k].pc = "recv"

\* The server is in the Stopped state.
Stopped == ~running /\ ~listening /\ acceptor = "stopped"

\* C30: once stop()/disconnect() has cleared the flag and closed the
\* listening socket no connection is accepted, the accept loop's thread
\* leaves its loop, from inside accept() as well as from just after a
\* timeout, and the server stays Stopped.
C30_StopEndsAcceptLoop ==
    /\ [][/\ ~running => \A k \in Conns : ~Accepts(k)
          /\ Stopped => Stopped']_vars
    /\ (~running /\ acceptor = "accept") ~> Stopped
    /\ (~running /\ acceptor = "test") ~> Stopped

\* The server is Stopped, and a connection that was waiting in the backlog
\* when stop was called was never handed to a handler.
C30_StoppedWithBacklogDropped ==
    /\ Stopped
    /\ \E k \in Conns : handler[k].pc = "closed" /\ handler[k].why = "never accepted"

(***************************************************************************)
(* C31: a stopped server dispatches nothing.                               *)
(***************************************************************************)

\* C31: once stop()/disconnect() has set running to false no handler
\* dispatches a further command: a command that reaches an accepted
\* connection after the stop is not executed.
C31_NoDispatchAfterStop ==
    [][~running => \A tag \in 1..Len(raw.on) : ~Dispatches(tag)]_vars

(***************************************************************************)
(* C32: send_command terminates.                                           *)
(***************************************************************************)

\* A send_command call of c is in progress.
InCall(c) == cpc[c] # "idle"

\* The call goes round again in this step: the reconnect of lines 143-148
\* succeeded, or the connect at entry failed with attempts left.
GoesRound(c) ==
    \/ cpc[c] = "retry" /\ cpc'[c] = "entry"
    \/ cpc[c] = "entry" /\ cpc'[c] = "entry" /\ session'[c] # session[c]

\* C32: inside one send_command call reconnect_attempts never goes down and
\* goes up each time the call goes round again; the command is transmitted
\* at most once more than the counter allows retries, each wait for a
\* response ends at the receive timeout, and so the call is over after at
\* most max_reconnect_attempts + 1 transmissions.
C32_SendCommandBounded ==
    /\ [](\A c \in Clients :
            /\ cstat[c].sends <= max_reconnect_attempts + 1
            /\ InCall(c) => cstat[c].sends <= session[c].reconnect_attempts + 1
            /\ cpc[c] = "recv"
                 => /\ cwait[c] <= RecvTimeout
                    /\ cwait[c] >= RecvTimeout => ENABLED Recv(c))
    /\ [][\A c \in Clients :
            /\ (InCall(c) /\ InCall(c)')
                 => session'[c].reconnect_attempts >= session[c].reconnect_attempts
            /\ GoesRound(c)
                 => session'[c].reconnect_attempts > session[c].reconnect_attempts]_vars

\* A call that transmitted its command max_reconnect_attempts + 1 times, got
\* no answer to any of them and returned a simulated result.
C32_GaveUpAfterFourSends ==
    \E c \in Clients :
        /\ Done(c) /\ cret[c].sim
        /\ cstat[c].sends = max_reconnect_attempts + 1
        /\ cstat[c].saw = "timeout"

(***************************************************************************)
(* C33: a result is the response to the call's own transmission.           *)
(***************************************************************************)

\* send_command returns, in this step, a result it received.
ReturnsResult(c) ==
    /\ cpc[c] = "recv" /\ cpc'[c] = "idle"
    /\ cret'[c].kind = "returned" /\ ~cret'[c].sim

\* The response document the client took off its socket in this step.
TakenResponse(c) ==
    LET k == session[c].sock
    IN  loads(SubSeq(net[k].s2c, 1, Len(net[k].s2c) - Len(net'[k].s2c)))

\* C33: a result send_command returns from the server is the response to a
\* transmission of that very call, which the server has dispatched; the
\* socket a call works on never holds a response to another call, and none
\* at all when the command is about to be sent.
C33_ResultAnswersOwnCall ==
    /\ [][\A c \in Clients :
            ReturnsResult(c)
               => /\ TakenResponse(c).ok
                  /\ TakenResponse(c).tag = cstat[c].tag
                  /\ Count(cstat[c].tag) >= 1
                  /\ "result" \in DOMAIN TakenResponse(c).doc
                  /\ cret'[c].value = TakenResponse(c).doc.result]_vars
    /\ [](\A c \in Clients :
            (InCall(c) /\ session[c].sock > 0)
               => /\ \A j \in 1..Len(net[session[c].sock].s2c) :
                       net[session[c].sock].s2c[j].tag = cstat[c].tag
                  /\ cpc[c] = "send" => net[session[c].sock].s2c = << >>)

\* The second call timed out on its first transmission, which the server
\* answered all the same, and returned the response to its retransmission.
C33_OwnResponseAfterTimeout ==
    \E c \in Clients :
        /\ Done(c) /\ cret[c].kind = "returned" /\ ~cret[c].sim
        /\ cstat[c].calls = 2
        /\ cstat[c].saw = "timeout" /\ cstat[c].sends >= 2
        /\ Count(1) >= 1 /\ Count(2) >= 2

(***************************************************************************)
(* C34: a connected session holds a socket.                                *)
(***************************************************************************)

\* C34: after any sequence of connect(), disconnect() and send_command()
\* calls, and at every step inside them, a session whose connected flag is
\* True holds a socket (self.sock is not None), and that socket is one whose
\* connect() succeeded and which the client has not closed.
C34_ConnectedHasSocket ==
    \A c \in Sessions :
        session[c].connected
           => /\ session[c].sock # NoSock
              /\ session[c].sock \in Conns
              /\ net[session[c].sock].open
              /\ ~net[session[c].sock].cclosed

\* The session is connected again after the application disconnected it and
\* after a call of send_command that failed and closed its socket.
C34_ConnectedAfterDisconnects ==
    \E c \in Clients :
        /\ session[c].connected /\ session[c].sock # NoSock
        /\ cpc[c] = "idle"
        /\ cstat[c].calls >= 1 /\ cret[c].kind = "raised"
        /\ cstat[c].direct >= 2 /\ cstat[c].op = "connect" /\ cstat[c].ok

(***************************************************************************)
(* C35: what resets reconnect_attempts.                                    *)
(***************************************************************************)

\* send_command raises, in this step, on a response with status "error".
RaisesOnErrorResponse(c) ==
    /\ cpc[c] = "recv" /\ cpc'[c] = "idle"
    /\ cret'[c].kind = "raised" /\ cstat'[c].saw = "error"

\* connect(), called by the application, returns True in this step.
ConnectReturnsTrue(c) ==
    /\ cstat'[c].direct = cstat[c].direct + 1
    /\ cstat'[c].op = "connect" /\ cstat'[c].ok

\* C35: a send_command that returns a result of the server leaves
\* reconnect_attempts at 0, whatever it was; a response with status "error"
\* and a connect() that succeeds without an exchange leave the counter as it
\* was.
C35_CounterResetOnResult ==
    /\ [][\A c \in Clients :
            /\ ReturnsResult(c) => session'[c].reconnect_attempts = 0
            /\ RaisesOnErrorResponse(c)
                  => session'[c].reconnect_attempts = session[c].reconnect_attempts
            /\ ConnectReturnsTrue(c)
                  => session'[c].reconnect_attempts = session[c].reconnect_attempts]_vars
    /\ [](\A c \in Clients :
            (Done(c) /\ cret[c].kind = "returned" /\ ~cret[c].sim /\ cstat[c].op = "")
               => session[c].reconnect_attempts = 0)

\* A call that began with failed attempts counted returned the server's
\* result.
C35_ResultAfterFailedAttempts ==
    \E c \in Clients :
        /\ Done(c) /\ cret[c].kind = "returned" /\ ~cret[c].sim
        /\ cstat[c].entryFails >= 1 /\ cstat[c].op = ""
        /\ session[c].reconnect_attempts = 0

(***************************************************************************)
(* C36: connect() returning True.                                          *)
(***************************************************************************)

\* C36: whenever connect() has returned True the session is connected
\* (connected is True and self.sock is a socket), in simulation mode as in
\* every other; and connect() on a connected session returns True and changes
\* no field of it.
C36_ConnectTrueMeansConnected ==
    /\ [](\A c \in Clients :
            (cpc[c] = "idle" /\ cstat[c].op = "connect" /\ cstat[c].ok)
               => session[c].connected /\ session[c].sock # NoSock)
    /\ [][\A c \in Clients :
            (ConnectReturnsTrue(c) /\ session[c].connected /\ session[c].sock # NoSock)
               => session'[c] = session[c]]_vars

(***************************************************************************)
(* C37: create_track returns the index of the track it created.            *)
(***************************************************************************)

\* C37: create_track(name) returns the index the server gave the new track
\* whenever the server answered create_midi_track and set_track_name with
\* status "success", against the Remote Script and against the standalone
\* server; it returns None only when one of the two commands failed.
C37_CreateTrackReturnsIndex ==
    fout # NoResponse
       => /\ (fout.first.status = "success" /\ fout.second.status = "success")
                => fout.ret = fout.first.result.d.index
          /\ fout.ret = VNull
                => (fout.first.status # "success" \/ fout.second.status # "success")

=============================================================================
